---- MODULE Spec2Model ----
(***************************************************************************)
(* stream-scribe: the VAD state machine, the ASR worker (Transcriber with  *)
(* its retry strategy and hallucination filter), the summarizer worker     *)
(* (RealtimeSummarizer), the audio stream (AudioStream) and the shutdown   *)
(* of the application, each as a state machine translated from the Python  *)
(* source.                                                                 *)
(*                                                                         *)
(* Every object of the program is one record variable whose fields carry   *)
(* the names of the object's attributes.  Each subsystem has its own       *)
(* specification (SpecVad, SpecAsr, SpecSum, SpecStream, ...) that leaves  *)
(* the objects of the other subsystems in their constructed state.         *)
(*                                                                         *)
(* Probabilities and thresholds are integers (a probability level p stands *)
(* for p / PMax), log-probabilities are integers scaled by 100, texts are  *)
(* sequences of one-character strings.                                     *)
(***************************************************************************)
EXTENDS Integers, Sequences, FiniteSets, TLC

VARIABLES
    vadSettings,   \* VADDetectionSettings handed to VadStateMachine.__init__
    vsm,           \* the VadStateMachine object
    vadAction,     \* the VadAction returned by the last process() call
    vadOpen,       \* history: START_RECORDING returned minus STOP_RECORDING returned
    vadRun,        \* history: the speech chunks fed since the last silence chunk
    vadFed,        \* history: the last probability fed and the silence chunks before it
    transcriber,   \* the Transcriber object: queue, running, _processing
    asr,           \* the ASR worker thread inside Transcriber.run / _process_audio
    producer,      \* the audio thread inside Transcriber.add_audio
    stopper,       \* the main thread inside Transcriber.stop
    session,       \* the TranscriptionSession
    events,        \* history: the events published on the signals
    summarySettings, \* SummarySettings handed to RealtimeSummarizer.__init__
    summarizer,    \* the RealtimeSummarizer object
    sumWorker,     \* the summarizer thread inside RealtimeSummarizer.run
    adder,         \* the thread inside RealtimeSummarizer.add_segment
    sumStopper,    \* the main thread inside RealtimeSummarizer.stop
    llm,           \* history: segments arrived and taken, calls of the LLM client
    app,           \* the main thread inside StreamScribeApp.run / _shutdown
    stream,        \* the AudioStream object
    audioThreads,  \* the AudioStreamThread threads inside _audio_processing_loop
    caller,        \* the thread that calls AudioStream.start and on_exit
    source,        \* the audio source: the number of chunks its stream() yields
    trace,         \* history: utterances handed to add_audio, chunks processed
    strategy,      \* a TranscriptionRetryStrategy object on its own
    lastCall,      \* history: the evaluate_result calls made on strategy
    filterCall     \* history: the last evaluate_transcription call on a filter

vadVars == <<vadSettings, vsm, vadAction, vadOpen, vadRun, vadFed>>

asrVars == <<transcriber, asr, producer, stopper, session, events>>

asrThreads == <<transcriber, asr, producer, stopper>>

sumVars == <<summarySettings, summarizer, sumWorker, adder, sumStopper, llm>>

appVars == <<app>>

\* what the VAD state machine, the transcriber and the summarizer never touch
streamVars == <<stream, audioThreads, caller, source, trace>>

strategyVars == <<strategy, lastCall>>

filterVars == <<filterCall>>

outerVars == <<appVars, streamVars, strategyVars, filterVars>>

vars == <<vadSettings, vsm, vadAction, vadOpen, vadRun, vadFed,
          transcriber, asr, producer, stopper, session, events,
          summarySettings, summarizer, sumWorker, adder, sumStopper, llm,
          app, stream, audioThreads, caller, source, trace, strategy, lastCall, filterCall>>

(***************************************************************************)
(* Bounds of the model                                                     *)
(***************************************************************************)
\* probability levels 0 .. PMax
PMax == 2
\* min_speech_chunks, max_silence_chunks, idle_reset_chunks range over 0 .. MaxSetting
MaxSetting == 2
\* speech_chunks keeps growing while a recording goes on: process() is cut off there
MaxSpeechChunks == 4
\* the silence chunks fed in a row to an idle machine: process() is cut off there
MaxIdleRun == 5

Probabilities == 0 .. PMax
\* a threshold of PMax + 1 is one no probability reaches
Thresholds == 0 .. (PMax + 1)
ChunkSettings == 0 .. MaxSetting

(***************************************************************************)
(* VadStateMachine  (infrastructure/audio/vad_state_machine.py)            *)
(***************************************************************************)
VadActions == {"NONE", "START_RECORDING", "STOP_RECORDING", "RESET_VAD_MODEL"}

\* VadStateMachine.__init__
VadStateMachineInit ==
    [is_recording |-> FALSE, speech_chunks |-> 0,
     silence_chunks |-> 0, idle_silence_chunks |-> 0]

\* the settings of domain/settings.py with the counters scaled down
DefaultVadSettings ==
    [start_threshold |-> 2, end_threshold |-> 1,
     min_speech_chunks |-> 2, max_silence_chunks |-> 2, idle_reset_chunks |-> 2]

\* VadStateMachine._evaluate_threshold with strict comparisons
EvaluateThresholdStrict(m, s, probability) ==
    IF m.is_recording
        THEN probability > s.end_threshold
        ELSE probability > s.start_threshold

\* VadStateMachine._evaluate_threshold
EvaluateThreshold(m, s, probability) ==
    IF m.is_recording
        THEN probability >= s.end_threshold
        ELSE probability >= s.start_threshold

\* VadStateMachine._handle_speech without the "not self.is_recording" test
HandleSpeechNoRecordingTest(m, s) ==
    LET m1 == [m EXCEPT !.silence_chunks = 0,
                        !.idle_silence_chunks = 0,
                        !.speech_chunks = m.speech_chunks + 1]
    IN IF m1.speech_chunks >= s.min_speech_chunks
          THEN [state |-> [m1 EXCEPT !.is_recording = TRUE],
                action |-> "START_RECORDING"]
          ELSE [state |-> m1, action |-> "NONE"]

\* VadStateMachine._handle_speech starting one chunk late
HandleSpeechOneLate(m, s) ==
    LET m1 == [m EXCEPT !.silence_chunks = 0,
                        !.idle_silence_chunks = 0,
                        !.speech_chunks = m.speech_chunks + 1]
    IN IF ~m1.is_recording /\ m1.speech_chunks > s.min_speech_chunks
          THEN [state |-> [m1 EXCEPT !.is_recording = TRUE],
                action |-> "START_RECORDING"]
          ELSE [state |-> m1, action |-> "NONE"]

\* VadStateMachine._handle_speech: the new state and the returned action
HandleSpeech(m, s) ==
    LET m1 == [m EXCEPT !.silence_chunks = 0,
                        !.idle_silence_chunks = 0,
                        !.speech_chunks = m.speech_chunks + 1]
    IN IF ~m1.is_recording /\ m1.speech_chunks >= s.min_speech_chunks
          THEN [state |-> [m1 EXCEPT !.is_recording = TRUE],
                action |-> "START_RECORDING"]
          ELSE [state |-> m1, action |-> "NONE"]

\* a _reset_recording_state that leaves silence_chunks as it is
ResetRecordingStateKeepsSilence(m) ==
    [m EXCEPT !.is_recording = FALSE, !.speech_chunks = 0]

\* VadStateMachine._reset_recording_state
ResetRecordingState(m) ==
    [m EXCEPT !.is_recording = FALSE, !.silence_chunks = 0, !.speech_chunks = 0]

\* VadStateMachine._handle_silence stopping one silence chunk late
HandleSilenceStopsLate(m, s) ==
    LET m1 == [m EXCEPT !.speech_chunks = 0]
    IN IF m1.is_recording
          THEN LET m2 == [m1 EXCEPT !.silence_chunks = m1.silence_chunks + 1]
               IN IF m2.silence_chunks > s.max_silence_chunks
                     THEN [state |-> ResetRecordingState(m2),
                           action |-> "STOP_RECORDING"]
                     ELSE [state |-> m2, action |-> "NONE"]
          ELSE LET m2 == [m1 EXCEPT !.idle_silence_chunks = m1.idle_silence_chunks + 1]
               IN IF m2.idle_silence_chunks >= s.idle_reset_chunks
                     THEN [state |-> [m2 EXCEPT !.idle_silence_chunks = 0],
                           action |-> "RESET_VAD_MODEL"]
                     ELSE [state |-> m2, action |-> "NONE"]

\* VadStateMachine._handle_silence leaving idle_silence_chunks as it is on a reset
HandleSilenceKeepsIdleCount(m, s) ==
    LET m1 == [m EXCEPT !.speech_chunks = 0]
    IN IF m1.is_recording
          THEN LET m2 == [m1 EXCEPT !.silence_chunks = m1.silence_chunks + 1]
               IN IF m2.silence_chunks >= s.max_silence_chunks
                     THEN [state |-> ResetRecordingState(m2),
                           action |-> "STOP_RECORDING"]
                     ELSE [state |-> m2, action |-> "NONE"]
          ELSE LET m2 == [m1 EXCEPT !.idle_silence_chunks = m1.idle_silence_chunks + 1]
               IN IF m2.idle_silence_chunks >= s.idle_reset_chunks
                     THEN [state |-> m2, action |-> "RESET_VAD_MODEL"]
                     ELSE [state |-> m2, action |-> "NONE"]

\* VadStateMachine._handle_silence: the new state and the returned action
HandleSilence(m, s) ==
    LET m1 == [m EXCEPT !.speech_chunks = 0]
    IN IF m1.is_recording
          THEN LET m2 == [m1 EXCEPT !.silence_chunks = m1.silence_chunks + 1]
               IN IF m2.silence_chunks >= s.max_silence_chunks
                     THEN [state |-> ResetRecordingState(m2),
                           action |-> "STOP_RECORDING"]
                     ELSE [state |-> m2, action |-> "NONE"]
          ELSE LET m2 == [m1 EXCEPT !.idle_silence_chunks = m1.idle_silence_chunks + 1]
               IN IF m2.idle_silence_chunks >= s.idle_reset_chunks
                     THEN [state |-> [m2 EXCEPT !.idle_silence_chunks = 0],
                           action |-> "RESET_VAD_MODEL"]
                     ELSE [state |-> m2, action |-> "NONE"]

\* VadStateMachine.process
VadProcess(m, s, probability) ==
    IF EvaluateThreshold(m, s, probability)
        THEN HandleSpeech(m, s)
        ELSE HandleSilence(m, s)

\* history of the returned actions: +1 for a START_RECORDING, -1 for a STOP_RECORDING
OpenAfter(open, action) ==
    CASE action = "START_RECORDING" -> open + 1
      [] action = "STOP_RECORDING"  -> open - 1
      [] OTHER                      -> open

\* no chunk fed yet: the machine is idle
VadRunInit == [n |-> 0, from_idle |-> TRUE]

\* history of the chunks fed: n counts the speech chunks since the last
\* silence chunk, from_idle tells that the machine was not recording then
RunAfter(run, is_speech, state) ==
    IF is_speech THEN [run EXCEPT !.n = run.n + 1]
                 ELSE [n |-> 0, from_idle |-> ~state.is_recording]

\* no chunk fed yet
VadFedInit == [calls |-> 0, probability |-> 0, was_recording |-> FALSE,
               rec_n |-> 0, idle_n |-> 0]

\* history of the chunks fed: the probability of the last one and whether the
\* machine was recording when it came; rec_n counts the silence chunks fed in
\* a row to a recording machine, idle_n those fed in a row to an idle one
FedAfter(fed, m, is_speech, probability) ==
    [calls |-> IF fed.calls = 0 THEN 1 ELSE fed.calls,
     probability |-> probability,
     was_recording |-> m.is_recording,
     rec_n |-> IF ~is_speech /\ m.is_recording THEN fed.rec_n + 1 ELSE 0,
     idle_n |-> IF ~is_speech /\ ~m.is_recording THEN fed.idle_n + 1 ELSE 0]

\* one call state_machine.process(probability)
Process(probability) ==
    LET r == VadProcess(vsm, vadSettings, probability)
        fed == FedAfter(vadFed, vsm, EvaluateThreshold(vsm, vadSettings, probability),
                        probability)
    IN /\ r.state.speech_chunks <= MaxSpeechChunks
       /\ fed.idle_n <= MaxIdleRun
       /\ vadFed' = fed
       /\ vsm' = r.state
       /\ vadAction' = r.action
       /\ vadOpen' = OpenAfter(vadOpen, r.action)
       /\ vadRun' = RunAfter(vadRun, EvaluateThreshold(vsm, vadSettings, probability),
                             r.state)
       /\ UNCHANGED <<vadSettings, asrVars, sumVars, outerVars>>

\* a chunk the active threshold classifies as speech
ProcessSpeech ==
    \E p \in Probabilities :
        /\ EvaluateThreshold(vsm, vadSettings, p)
        /\ Process(p)

\* a chunk the active threshold classifies as silence
ProcessSilence ==
    \E p \in Probabilities :
        /\ ~EvaluateThreshold(vsm, vadSettings, p)
        /\ Process(p)

(***************************************************************************)
(* Texts and optional values                                               *)
(***************************************************************************)
\* Python's None and a present value v, as sequences of length 0 and 1
None == <<>>
Some(v) == <<v>>

\* the characters str.strip() removes
Whitespace == {" "}
\* _JAPANESE_PUNCTUATION_PATTERN: the class [。、！？\s], written in ASCII
Separators == {".", ",", "!", "?"} \cup Whitespace

RECURSIVE LStrip(_)
\* str.lstrip()
LStrip(t) ==
    IF t # <<>> /\ Head(t) \in Whitespace THEN LStrip(Tail(t)) ELSE t

RECURSIVE RStrip(_)
\* str.rstrip()
RStrip(t) ==
    IF t # <<>> /\ t[Len(t)] \in Whitespace
        THEN RStrip(SubSeq(t, 1, Len(t) - 1))
        ELSE t

\* str.strip()
Strip(t) == RStrip(LStrip(t))

\* Python's text[a:b] for 0 <= a, with b cut at len(text)
Slice(t, a, b) ==
    LET e == IF b > Len(t) THEN Len(t) ELSE b
    IN IF a >= e THEN <<>> ELSE SubSeq(t, a + 1, e)

\* Python's "phrase in text"
Contains(t, phrase) ==
    \E i \in 0 .. (Len(t) - Len(phrase)) : Slice(t, i, i + Len(phrase)) = phrase

RECURSIVE CountFrom(_, _, _)
\* str.count(pattern): the non-overlapping occurrences, scanning from offset i
CountFrom(t, pattern, i) ==
    IF i + Len(pattern) > Len(t) THEN 0
    ELSE IF Slice(t, i, i + Len(pattern)) = pattern
            THEN 1 + CountFrom(t, pattern, i + Len(pattern))
            ELSE CountFrom(t, pattern, i + 1)

Count(t, pattern) == CountFrom(t, pattern, 0)

Min(a, b) == IF a < b THEN a ELSE b

RECURSIVE Sum(_)
Sum(s) == IF s = <<>> THEN 0 ELSE Head(s) + Sum(Tail(s))

RECURSIVE SelectPresent(_)
\* the values of the entries that are not None
SelectPresent(s) ==
    IF s = <<>> THEN <<>>
    ELSE IF Head(s) = None THEN SelectPresent(Tail(s))
         ELSE <<Head(s)[1]>> \o SelectPresent(Tail(s))

(***************************************************************************)
(* HallucinationFilter  (infrastructure/ml/filters.py)                     *)
(* Log-probabilities are scaled by 100, durations by 10.  A reason is the  *)
(* leading words of the reason string the detector returns.                *)
(***************************************************************************)
MIN_CHAR_REPETITION == 10
MIN_SHORT_PATTERN_REPETITION == 5
MIN_LONG_PATTERN_REPETITION == 3
MIN_TOKEN_REPETITION == 5
SHORT_PATTERN_MAX_LENGTH == 10
LONG_PATTERN_MIN_LENGTH == 11
LONG_PATTERN_MAX_LENGTH == 50
PATTERN_SEARCH_START_POSITIONS == 50
EXTREME_LOW_LOGPROB_THRESHOLD == -170
GREETING_LOW_LOGPROB_THRESHOLD == -80
GREETING_LONG_AUDIO_THRESHOLD == 50
GREETING_SHORT_TEXT_THRESHOLD == 15

\* BANNED_PHRASES and CONTEXTLESS_GREETING_PHRASES, each scaled down to
\* ASCII stand-ins of the configured phrases
BANNED_PHRASES == << <<"x", "x">>, <<"x", "y">> >>
CONTEXTLESS_GREETING_PHRASES == << <<"h", "i">> >>

\* HallucinationFilter._check_banned_phrases
CheckBannedPhrases(text) ==
    IF \E k \in 1 .. Len(BANNED_PHRASES) : Contains(text, BANNED_PHRASES[k])
        THEN Some("Banned phrase")
        ELSE None

RECURSIVE CharScan(_, _, _, _)
\* the for loop of _check_character_repetition over text[i:], with the
\* running consecutive_count and prev_char
CharScan(text, i, consecutive_count, prev_char) ==
    IF i > Len(text) THEN None
    ELSE IF text[i] = prev_char
            THEN IF consecutive_count + 1 >= MIN_CHAR_REPETITION
                    THEN Some("Character repetition")
                    ELSE CharScan(text, i + 1, consecutive_count + 1, prev_char)
            ELSE CharScan(text, i + 1, 1, text[i])

\* HallucinationFilter._check_character_repetition passing over the texts of
\* exactly MIN_CHAR_REPETITION characters
CheckCharacterRepetitionLongerOnly(text) ==
    IF Len(text) <= MIN_CHAR_REPETITION THEN None
    ELSE CharScan(text, 2, 1, text[1])

\* HallucinationFilter._check_character_repetition
CheckCharacterRepetition(text) ==
    IF Len(text) < MIN_CHAR_REPETITION THEN None
    ELSE CharScan(text, 2, 1, text[1])

\* the count-and-ratio test both pattern detectors apply
\* (REPETITION_RATIO_THRESHOLD = 0.5)
RepeatsEnough(text, pattern, min_count) ==
    /\ Strip(pattern) # <<>>
    /\ Count(text, pattern) >= min_count
    /\ Len(pattern) * Count(text, pattern) * 2 >= Len(text)

\* HallucinationFilter._check_short_pattern_repetition
CheckShortPatternRepetition(text) ==
    IF Len(text) < 20 THEN None
    ELSE IF \E pattern_len \in
                2 .. (Min(SHORT_PATTERN_MAX_LENGTH + 1, (Len(text) \div 3) + 1) - 1) :
              \E start \in
                0 .. (Min(PATTERN_SEARCH_START_POSITIONS,
                          Len(text) - pattern_len * 3 + 1) - 1) :
                RepeatsEnough(text, Slice(text, start, start + pattern_len),
                              MIN_SHORT_PATTERN_REPETITION)
            THEN Some("Pattern repetition")
            ELSE None

\* HallucinationFilter._check_long_pattern_repetition
CheckLongPatternRepetition(text) ==
    IF Len(text) < 60 THEN None
    ELSE IF \E pattern_len \in
                LONG_PATTERN_MIN_LENGTH ..
                    Min(LONG_PATTERN_MAX_LENGTH, Len(text) \div 3) :
              /\ (pattern_len - LONG_PATTERN_MIN_LENGTH) % 5 = 0
              /\ RepeatsEnough(text, Slice(text, 0, pattern_len),
                               MIN_LONG_PATTERN_REPETITION)
            THEN Some("Long phrase repetition")
            ELSE None

RECURSIVE Tokens(_, _)
\* _JAPANESE_PUNCTUATION_PATTERN.split(text) without its empty strings:
\* the maximal runs of non-separator characters (cur is the run being read)
Tokens(t, cur) ==
    IF t = <<>> THEN (IF cur = <<>> THEN <<>> ELSE <<cur>>)
    ELSE IF Head(t) \in Separators
            THEN (IF cur = <<>> THEN <<>> ELSE <<cur>>) \o Tokens(Tail(t), <<>>)
            ELSE Tokens(Tail(t), Append(cur, Head(t)))

\* HallucinationFilter._check_token_repetition
CheckTokenRepetition(text) ==
    LET tokens == Tokens(text, <<>>)
    IN IF /\ Len(tokens) >= MIN_TOKEN_REPETITION
          /\ \A i \in 1 .. MIN_TOKEN_REPETITION :
                tokens[Len(tokens) + 1 - i] = tokens[Len(tokens)]
          THEN Some("Token repetition at end")
          ELSE None

RECURSIVE RemoveSeparators(_)
\* _JAPANESE_PUNCTUATION_PATTERN.sub("", text)
RemoveSeparators(t) ==
    IF t = <<>> THEN <<>>
    ELSE IF Head(t) \in Separators THEN RemoveSeparators(Tail(t))
         ELSE <<Head(t)>> \o RemoveSeparators(Tail(t))

\* HallucinationFilter._check_contextless_greeting
CheckContextlessGreeting(text, avg_logprob, audio_duration) ==
    LET normalized_text == RemoveSeparators(text)
        is_low_confidence ==
            avg_logprob # None /\ avg_logprob[1] < GREETING_LOW_LOGPROB_THRESHOLD
        is_short_in_long_audio ==
            /\ audio_duration # None
            /\ audio_duration[1] >= GREETING_LONG_AUDIO_THRESHOLD
            /\ Len(normalized_text) <= GREETING_SHORT_TEXT_THRESHOLD
    IN IF ~(\E k \in 1 .. Len(CONTEXTLESS_GREETING_PHRASES) :
                Contains(normalized_text, CONTEXTLESS_GREETING_PHRASES[k]))
          THEN None
       ELSE IF Len(normalized_text) > GREETING_SHORT_TEXT_THRESHOLD THEN None
       ELSE IF is_low_confidence THEN Some("Contextless greeting with low confidence")
       ELSE IF is_short_in_long_audio THEN Some("Contextless greeting in long audio")
       ELSE None

\* HallucinationFilter._check_extreme_low_confidence
CheckExtremeLowConfidence(avg_logprob) ==
    IF avg_logprob # None /\ avg_logprob[1] < EXTREME_LOW_LOGPROB_THRESHOLD
        THEN Some("Extreme low confidence")
        ELSE None

\* the first reason of a list of detector results that is not None
FirstReason(results) ==
    IF \E k \in 1 .. Len(results) : results[k] # None
        THEN results[CHOOSE k \in 1 .. Len(results) :
                        /\ results[k] # None
                        /\ \A j \in 1 .. (k - 1) : results[j] = None]
        ELSE None

\* HallucinationFilter.evaluate_transcription with the character repetition
\* detector run before the banned phrase detector
EvaluateTranscriptionCharFirst(text, avg_logprob, audio_duration) ==
    IF text = <<>> \/ Strip(text) = <<>> THEN None
    ELSE FirstReason(<<CheckCharacterRepetition(text),
                       CheckBannedPhrases(text),
                       CheckShortPatternRepetition(text),
                       CheckLongPatternRepetition(text),
                       CheckTokenRepetition(text),
                       CheckContextlessGreeting(text, avg_logprob, audio_duration),
                       CheckExtremeLowConfidence(avg_logprob)>>)

\* HallucinationFilter.evaluate_transcription
EvaluateTranscription(text, avg_logprob, audio_duration) ==
    IF text = <<>> \/ Strip(text) = <<>> THEN None
    ELSE FirstReason(<<CheckBannedPhrases(text),
                       CheckCharacterRepetition(text),
                       CheckShortPatternRepetition(text),
                       CheckLongPatternRepetition(text),
                       CheckTokenRepetition(text),
                       CheckContextlessGreeting(text, avg_logprob, audio_duration),
                       CheckExtremeLowConfidence(avg_logprob)>>)

\* HallucinationFilter.extract_metrics, the avg_logprob component: the mean
\* of the segments' avg_logprob values that are present (rounded down to
\* the 1/100 grid)
ExtractMetrics(segments) ==
    LET logprobs == SelectPresent(segments)
    IN IF segments = <<>> \/ logprobs = <<>> THEN None
       ELSE Some(Sum(logprobs) \div Len(logprobs))

(***************************************************************************)
(* TranscriptionRetryStrategy  (infrastructure/ml/transcription_strategy.py)*)
(***************************************************************************)
\* WHISPER_PARAMS (domain/constants.py): the five phases; thresholds scaled
\* by 10, the initial prompt as present ("prompt") or None
WHISPER_PARAMS ==
    << [language |-> "ja", temperature |-> 0, condition_on_previous_text |-> FALSE,
        initial_prompt |-> Some("prompt"), compression_ratio_threshold |-> 24,
        logprob_threshold |-> -10, no_speech_threshold |-> 6],
       [language |-> "ja", temperature |-> 0, condition_on_previous_text |-> FALSE,
        initial_prompt |-> Some("prompt"), compression_ratio_threshold |-> 20,
        logprob_threshold |-> -10, no_speech_threshold |-> 6],
       [language |-> "ja", temperature |-> 0, condition_on_previous_text |-> FALSE,
        initial_prompt |-> None, compression_ratio_threshold |-> 22,
        logprob_threshold |-> -10, no_speech_threshold |-> 6],
       [language |-> "ja", temperature |-> 0, condition_on_previous_text |-> FALSE,
        initial_prompt |-> None, compression_ratio_threshold |-> 18,
        logprob_threshold |-> -6, no_speech_threshold |-> 5],
       [language |-> "ja", temperature |-> 0, condition_on_previous_text |-> FALSE,
        initial_prompt |-> None, compression_ratio_threshold |-> 14,
        logprob_threshold |-> -4, no_speech_threshold |-> 4] >>

MAX_TRANSCRIPTION_RETRIES == Len(WHISPER_PARAMS)

\* WHISPER_PARAMS[i] for a 0-based index i; Python raises IndexError past the end
ParamsAt(i) ==
    IF i + 1 \in DOMAIN WHISPER_PARAMS
        THEN WHISPER_PARAMS[i + 1]
        ELSE [raised |-> "IndexError"]

\* TranscriptionRetryStrategy.get_current_params
GetCurrentParams(current_attempt) == ParamsAt(current_attempt)

\* TranscriptionRetryStrategy.get_attempt_info
GetAttemptInfo(current_attempt) == <<current_attempt + 1, MAX_TRANSCRIPTION_RETRIES>>

\* evaluate_result retrying while current_attempt < MAX_TRANSCRIPTION_RETRIES
EvaluateResultRetryOnceMore(current_attempt, text, filter_reason) ==
    IF text # <<>> /\ filter_reason = None
        THEN [action |-> "ACCEPT", next_params |-> None, reason |-> None,
              current_attempt |-> current_attempt]
    ELSE IF text = <<>> /\ filter_reason = None
        THEN [action |-> "DISCARD", next_params |-> None,
              reason |-> Some("Empty transcription (likely silence)"),
              current_attempt |-> current_attempt]
    ELSE IF current_attempt < MAX_TRANSCRIPTION_RETRIES
        THEN [action |-> "RETRY",
              next_params |-> Some(GetCurrentParams(current_attempt + 1)),
              reason |-> filter_reason,
              current_attempt |-> current_attempt + 1]
    ELSE [action |-> "DISCARD", next_params |-> None,
          reason |-> <<"Max retries reached. Last error", filter_reason[1]>>,
          current_attempt |-> current_attempt]

\* evaluate_result handing out the parameters of the attempt that just failed
EvaluateResultStaleParams(current_attempt, text, filter_reason) ==
    IF text # <<>> /\ filter_reason = None
        THEN [action |-> "ACCEPT", next_params |-> None, reason |-> None,
              current_attempt |-> current_attempt]
    ELSE IF text = <<>> /\ filter_reason = None
        THEN [action |-> "DISCARD", next_params |-> None,
              reason |-> Some("Empty transcription (likely silence)"),
              current_attempt |-> current_attempt]
    ELSE IF current_attempt < MAX_TRANSCRIPTION_RETRIES - 1
        THEN [action |-> "RETRY",
              next_params |-> Some(GetCurrentParams(current_attempt)),
              reason |-> filter_reason,
              current_attempt |-> current_attempt + 1]
    ELSE [action |-> "DISCARD", next_params |-> None,
          reason |-> <<"Max retries reached. Last error", filter_reason[1]>>,
          current_attempt |-> current_attempt]

\* evaluate_result that strips the text before it tests it
EvaluateResultStripsText(current_attempt, text, filter_reason) ==
    IF Strip(text) # <<>> /\ filter_reason = None
        THEN [action |-> "ACCEPT", next_params |-> None, reason |-> None,
              current_attempt |-> current_attempt]
    ELSE IF Strip(text) = <<>> /\ filter_reason = None
        THEN [action |-> "DISCARD", next_params |-> None,
              reason |-> Some("Empty transcription (likely silence)"),
              current_attempt |-> current_attempt]
    ELSE IF current_attempt < MAX_TRANSCRIPTION_RETRIES - 1
        THEN [action |-> "RETRY",
              next_params |-> Some(GetCurrentParams(current_attempt + 1)),
              reason |-> filter_reason,
              current_attempt |-> current_attempt + 1]
    ELSE [action |-> "DISCARD", next_params |-> None,
          reason |-> <<"Max retries reached. Last error", filter_reason[1]>>,
          current_attempt |-> current_attempt]

\* evaluate_result accepting every non-empty text, whatever the filter says
EvaluateResultIgnoreFilter(current_attempt, text, filter_reason) ==
    IF text # <<>>
        THEN [action |-> "ACCEPT", next_params |-> None, reason |-> None,
              current_attempt |-> current_attempt]
    ELSE [action |-> "DISCARD", next_params |-> None,
          reason |-> Some("Empty transcription (likely silence)"),
          current_attempt |-> current_attempt]

\* TranscriptionRetryStrategy.evaluate_result: the StrategyResult and the
\* strategy's current_attempt afterwards
EvaluateResult(current_attempt, text, filter_reason) ==
    IF text # <<>> /\ filter_reason = None
        THEN [action |-> "ACCEPT", next_params |-> None, reason |-> None,
              current_attempt |-> current_attempt]
    ELSE IF text = <<>> /\ filter_reason = None
        THEN [action |-> "DISCARD", next_params |-> None,
              reason |-> Some("Empty transcription (likely silence)"),
              current_attempt |-> current_attempt]
    ELSE IF current_attempt < MAX_TRANSCRIPTION_RETRIES - 1
        THEN [action |-> "RETRY",
              next_params |-> Some(GetCurrentParams(current_attempt + 1)),
              reason |-> filter_reason,
              current_attempt |-> current_attempt + 1]
    ELSE [action |-> "DISCARD", next_params |-> None,
          reason |-> <<"Max retries reached. Last error", filter_reason[1]>>,
          current_attempt |-> current_attempt]

(***************************************************************************)
(* TranscriptionSession  (domain/models.py) and the event handlers that    *)
(* record the published events in it                                       *)
(***************************************************************************)
\* TranscriptionSession.__init__
SessionInit ==
    [segments |-> <<>>, errors |-> <<>>, summaries |-> <<>>, final_summary |-> None]

\* TranscriptionSession.add_segment inserting at the front
AddSegmentAtFront(sess, segment) ==
    [sess EXCEPT !.segments = <<segment>> \o sess.segments]

\* TranscriptionSession.add_segment
AddSegment(sess, segment) ==
    [sess EXCEPT !.segments = Append(sess.segments, segment)]

\* TranscriptionSession.add_error losing the error
AddErrorNotRecorded(sess, error) == sess

\* TranscriptionSession.add_error
AddError(sess, error) ==
    [sess EXCEPT !.errors = Append(sess.errors, error)]

\* the session's message_posted handler: only ERROR messages are recorded
OnMessagePosted(sess, event) ==
    IF event.level = "ERROR"
        THEN AddError(sess, [timestamp |-> event.timestamp, message |-> event.message])
        ELSE sess

\* the session's segment_transcribed handler
OnSegmentTranscribed(sess, event) == AddSegment(sess, event.segment)

\* TranscriptionSession.add_summary
AddSummary(sess, summary, is_final) ==
    LET entry == [timestamp |-> 0, content |-> summary]
    IN IF is_final THEN [sess EXCEPT !.final_summary = Some(entry)]
       ELSE [sess EXCEPT !.summaries = Append(sess.summaries, entry)]

\* SummaryGeneratedEvent: the summary and whether it is the final one
SummaryGeneratedEvent(summary, is_final) == [summary |-> summary, is_final |-> is_final]

\* the session's summary_generated handler
OnSummaryGenerated(sess, event) == AddSummary(sess, event.summary, event.is_final)

\* message_posted.send(event): the event is published and the session's
\* handler runs on the publishing thread.  A message is kept by its level:
\* its text and its timestamp are left out.
PostMessage(level) ==
    LET event == [level |-> level, timestamp |-> 0, message |-> "message"]
    IN /\ events' = [events EXCEPT !.messages = Append(events.messages, level)]
       /\ session' = OnMessagePosted(session, event)

(***************************************************************************)
(* Transcriber  (infrastructure/ml/transcriber.py)                         *)
(***************************************************************************)
\* utterances handed to add_audio
MaxUtterances == 2
\* len(audio) / SAMPLE_RATE of the utterances handed in, in tenths of a
\* second: alternately a short one (2 s) and a long one (6 s)
AudioDurationOf(id) == IF id % 2 = 1 THEN 20 ELSE 60

\* what mlx_whisper.transcribe can return: the text and the avg_logprob of
\* each of its segments
AsrResults ==
    { [text |-> <<" ", "o", "k", " ">>, segments |-> <<Some(-30), None>>],
      [text |-> <<>>, segments |-> <<>>],
      [text |-> <<" ", " ">>, segments |-> <<Some(-50)>>],
      [text |-> <<"a", "x", "x">>, segments |-> <<Some(-30)>>],
      [text |-> <<"o", "k">>, segments |-> <<Some(-180), Some(-175)>>],
      [text |-> <<"h", "i", "!">>, segments |-> <<Some(-30)>>],
      [text |-> <<"a", "a", "a", "a", "a", "a", "a", "a", "a", "a">>,
       segments |-> <<Some(-20)>>] }

\* Transcriber.__init__
TranscriberInit == [queue |-> <<>>, running |-> TRUE, processing |-> FALSE]

\* the worker thread before run() has started its loop
AsrThreadInit ==
    [pc |-> "while", data |-> None, current_attempt |-> 0,
     text |-> <<>>, avg_logprob |-> None, filter_reason |-> None,
     reason |-> <<>>, calls |-> <<>>, outcome |-> "NONE", reported |-> FALSE,
     base |-> [segments |-> 0, messages |-> 0]]

ProducerInit == [pc |-> "idle", next_id |-> 1, audio |-> None, after_stop |-> FALSE]

StopperInit == [pc |-> "idle", wait_for_queue |-> FALSE, queued |-> {}]

EventsInit == [segments |-> <<>>, messages |-> <<>>, processed |-> {}, summaries |-> <<>>]

\* Transcriber.is_transcribing
IsTranscribing == transcriber.processing \/ Len(transcriber.queue) > 0

\* the utterance ids in a queue
QueuedIds(q) == {q[i].id : i \in 1 .. Len(q)}

\* a get that takes the newest item instead of the oldest
QueueGetNewest(q) == [item |-> q[Len(q)], rest |-> SubSeq(q, 1, Len(q) - 1)]

\* queue.Queue.get on a queue that is not empty: the item taken and the rest
QueueGet(q) == [item |-> Head(q), rest |-> Tail(q)]

\* add_audio that does not test self.running
AddAudioRunningIgnored(running) == TRUE

\* the test "if self.running" of add_audio
AddAudioRunning(running) == running

\* add_audio, up to its test of self.running: the call goes on to put the
\* utterance, or returns at once
AddAudioCheck ==
    /\ producer.pc = "idle"
    /\ producer.next_id <= MaxUtterances
    /\ IF AddAudioRunning(transcriber.running)
          THEN producer' = [producer EXCEPT
                              !.pc = "put",
                              !.audio = Some([id |-> producer.next_id,
                                              audio_duration |->
                                                  AudioDurationOf(producer.next_id)]),
                              !.after_stop = (stopper.pc # "idle")]
          ELSE producer' = [producer EXCEPT !.next_id = producer.next_id + 1]
    /\ UNCHANGED <<vadVars, outerVars, sumVars, transcriber, asr, stopper, session, events>>

\* add_audio: self.queue.put(...)
AddAudioPut ==
    /\ producer.pc = "put"
    /\ transcriber' = [transcriber EXCEPT
                         !.queue = Append(transcriber.queue, producer.audio[1])]
    /\ producer' = [producer EXCEPT !.pc = "idle", !.audio = None,
                                    !.next_id = producer.next_id + 1]
    /\ UNCHANGED <<vadVars, outerVars, sumVars, asr, stopper, session, events>>

\* Transcriber.stop: self.running = False
StopCall(wait_for_queue) ==
    /\ stopper.pc = "idle"
    /\ stopper' = [pc |-> IF wait_for_queue THEN "returned" ELSE "clearing",
                   wait_for_queue |-> wait_for_queue,
                   queued |-> QueuedIds(transcriber.queue)]
    /\ transcriber' = [transcriber EXCEPT !.running = FALSE]
    /\ UNCHANGED <<vadVars, outerVars, sumVars, asr, producer, session, events>>

\* the main thread calls Transcriber.stop with either argument
Stop == \E wait_for_queue \in BOOLEAN : StopCall(wait_for_queue)

\* Transcriber.stop(wait_for_queue=False): one self.queue.get_nowait()
StopGetNowait ==
    /\ stopper.pc = "clearing"
    /\ transcriber.queue # <<>>
    /\ transcriber' = [transcriber EXCEPT !.queue = Tail(transcriber.queue)]
    /\ UNCHANGED <<vadVars, outerVars, sumVars, asr, producer, stopper, session, events>>

\* Transcriber.stop(wait_for_queue=False): get_nowait raises queue.Empty
StopQueueEmpty ==
    /\ stopper.pc = "clearing"
    /\ transcriber.queue = <<>>
    /\ stopper' = [stopper EXCEPT !.pc = "returned"]
    /\ UNCHANGED <<vadVars, outerVars, sumVars, transcriber, asr, producer, session, events>>

\* a loop condition that tests self.running alone
RunConditionRunningOnly(running, q) == running

\* the condition of run's loop: self.running or not self.queue.empty()
RunCondition(running, q) == running \/ q # <<>>

\* run: the test of the while loop
RunWhile ==
    /\ asr.pc = "while"
    /\ asr' = [asr EXCEPT !.pc = IF RunCondition(transcriber.running, transcriber.queue)
                                    THEN "get" ELSE "exited"]
    /\ UNCHANGED <<vadVars, outerVars, sumVars, transcriber, producer, stopper, session, events>>

\* run: self.queue.get(timeout=0.5) returns an utterance
RunGet ==
    /\ asr.pc = "get"
    /\ transcriber.queue # <<>>
    /\ LET g == QueueGet(transcriber.queue)
       IN /\ transcriber' = [transcriber EXCEPT !.queue = g.rest]
          /\ asr' = [asr EXCEPT !.pc = "dequeued", !.data = Some(g.item)]
    /\ UNCHANGED <<vadVars, outerVars, sumVars, producer, stopper, session, events>>

\* run: self.queue.get(timeout=0.5) raises queue.Empty, and the loop continues
RunGetEmpty ==
    /\ asr.pc = "get"
    /\ transcriber.queue = <<>>
    /\ asr' = [asr EXCEPT !.pc = "while"]
    /\ UNCHANGED <<vadVars, outerVars, sumVars, transcriber, producer, stopper, session, events>>

\* run: self._processing = True, and _process_audio starts with a fresh
\* TranscriptionRetryStrategy (history: base, the number of events published
\* before this utterance)
RunSetProcessing ==
    /\ asr.pc = "dequeued"
    /\ transcriber' = [transcriber EXCEPT !.processing = TRUE]
    /\ asr' = [AsrThreadInit EXCEPT
                 !.pc = "transcribe", !.data = asr.data,
                 !.base = [segments |-> Len(events.segments),
                           messages |-> Len(events.messages)]]
    /\ UNCHANGED <<vadVars, outerVars, sumVars, producer, stopper, session, events>>

\* _process_audio: one pass of the loop body from get_current_params to
\* evaluate_result, for an engine call that returns result
Transcribe ==
    /\ asr.pc = "transcribe"
    /\ \E result \in AsrResults :
         LET params == GetCurrentParams(asr.current_attempt)
             text == IF result.text # <<>> THEN Strip(result.text) ELSE <<>>
             audio_duration == Some(asr.data[1].audio_duration)
             avg_logprob == ExtractMetrics(result.segments)
             filter_reason == EvaluateTranscription(text, avg_logprob, audio_duration)
             strategy_result == EvaluateResult(asr.current_attempt, text, filter_reason)
         IN asr' = [asr EXCEPT
                      !.pc = CASE strategy_result.action = "ACCEPT" -> "accept"
                               [] strategy_result.action = "RETRY" -> "retry"
                               [] OTHER -> "discard",
                      !.calls = Append(asr.calls, params),
                      !.text = text,
                      !.avg_logprob = avg_logprob,
                      !.filter_reason = filter_reason,
                      !.reason = strategy_result.reason,
                      !.current_attempt = strategy_result.current_attempt]
    /\ UNCHANGED <<vadVars, outerVars, sumVars, transcriber, producer, stopper, session, events>>

\* _process_audio: mlx_whisper.transcribe raises
TranscribeRaises ==
    /\ asr.pc = "transcribe"
    /\ asr' = [asr EXCEPT !.pc = "except",
                          !.calls = Append(asr.calls,
                                           GetCurrentParams(asr.current_attempt))]
    /\ UNCHANGED <<vadVars, outerVars, sumVars, transcriber, producer, stopper, session, events>>

\* _process_audio: the except branch, which reports only while self.running
ReportFailure ==
    /\ asr.pc = "except"
    /\ IF transcriber.running
          THEN PostMessage("ERROR")
          ELSE UNCHANGED <<session, events>>
    /\ asr' = [asr EXCEPT !.pc = "finally", !.outcome = "ASR_EXCEPTION",
                          !.reported = transcriber.running]
    /\ UNCHANGED <<vadVars, outerVars, sumVars, transcriber, producer, stopper>>

\* the TranscriptionSegment built on ACCEPT
AcceptedSegment ==
    [text |-> asr.text, start_time |-> asr.data[1].id,
     audio_duration |-> asr.data[1].audio_duration, avg_logprob |-> asr.avg_logprob]

\* _process_audio on ACCEPT: segment_transcribed.send, whose handler appends
\* the segment to the session
PublishSegment ==
    /\ asr.pc = "accept"
    /\ LET event == [segment |-> AcceptedSegment,
                     filter_reason |-> asr.filter_reason]
       IN /\ events' = [events EXCEPT !.segments = Append(events.segments, event)]
          /\ session' = OnSegmentTranscribed(session, event)
    /\ asr' = [asr EXCEPT !.pc = "finally", !.outcome = "ACCEPT"]
    /\ UNCHANGED <<vadVars, outerVars, sumVars, transcriber, producer, stopper>>

\* _process_audio on RETRY: the "Quality issue detected" message, then the
\* loop goes round again
PostRetry ==
    /\ asr.pc = "retry"
    /\ PostMessage("ERROR")
    /\ asr' = [asr EXCEPT !.pc = "transcribe"]
    /\ UNCHANGED <<vadVars, outerVars, sumVars, transcriber, producer, stopper>>

\* a DISCARD branch without the "if filter_reason" test: silence is reported
\* as well
PostDiscardReportsSilence ==
    /\ asr.pc = "discard"
    /\ PostMessage("ERROR")
    /\ asr' = [asr EXCEPT !.pc = "finally", !.outcome = "DISCARD"]
    /\ UNCHANGED <<vadVars, outerVars, sumVars, transcriber, producer, stopper>>

\* _process_audio on DISCARD: the "Quality issue filtered" message unless
\* the utterance was silence
PostDiscard ==
    /\ asr.pc = "discard"
    /\ IF asr.filter_reason # None
          THEN PostMessage("ERROR")
          ELSE UNCHANGED <<session, events>>
    /\ asr' = [asr EXCEPT !.pc = "finally", !.outcome = "DISCARD"]
    /\ UNCHANGED <<vadVars, outerVars, sumVars, transcriber, producer, stopper>>

\* run: the finally clause, self._processing = False
RunFinally ==
    /\ asr.pc = "finally"
    /\ transcriber' = [transcriber EXCEPT !.processing = FALSE]
    /\ asr' = [asr EXCEPT !.pc = "while", !.data = None]
    /\ events' = [events EXCEPT !.processed = events.processed \cup {asr.data[1].id}]
    /\ UNCHANGED <<vadVars, outerVars, sumVars, producer, stopper, session>>

\* an exception that is not the engine's leaves _process_audio and run
\* through the finally clause: the worker thread ends
Escape ==
    /\ transcriber' = [transcriber EXCEPT !.processing = FALSE]
    /\ asr' = [asr EXCEPT !.pc = "crashed", !.outcome = "ESCAPED"]

\* evaluate_transcription (or extract_metrics) raises on the engine's result
FilterRaises ==
    /\ asr.pc = "transcribe"
    /\ Escape
    /\ UNCHANGED <<vadVars, outerVars, sumVars, producer, stopper, session, events>>

\* a subscriber of segment_transcribed raises, before or after the session's
\* handler has run
SegmentSubscriberRaises ==
    /\ asr.pc = "accept"
    /\ LET event == [segment |-> AcceptedSegment,
                     filter_reason |-> asr.filter_reason]
       IN /\ events' = [events EXCEPT !.segments = Append(events.segments, event)]
          /\ \E recorded \in BOOLEAN :
               session' = IF recorded THEN OnSegmentTranscribed(session, event)
                                      ELSE session
    /\ Escape
    /\ UNCHANGED <<vadVars, outerVars, sumVars, producer, stopper>>

\* a subscriber of message_posted raises on one of the worker's messages
MessageSubscriberRaises ==
    /\ \/ asr.pc = "retry"
       \/ asr.pc = "discard" /\ asr.filter_reason # None
       \/ asr.pc = "except" /\ transcriber.running
    /\ PostMessage("ERROR")
    /\ Escape
    /\ UNCHANGED <<vadVars, outerVars, sumVars, producer, stopper>>

(***************************************************************************)
(* RealtimeSummarizer  (infrastructure/ai/summarizer.py)                   *)
(*                                                                         *)
(* Three threads touch the summarizer: the thread that publishes           *)
(* segment_transcribed calls add_segment, the summarizer's own thread runs *)
(* run(), and the main thread calls stop().  A statement that holds        *)
(* _segment_lock is one step; every other statement that reads or writes   *)
(* shared state is a step of its own.  Time is kept as the age of          *)
(* last_segment_time (time.monotonic() - last_segment_time), which stops   *)
(* growing once it has reached silence_timeout_sec.                        *)
(***************************************************************************)
\* segments handed to add_segment
MaxSegments == 2
\* settings.trigger_threshold is 1 or MaxThreshold
MaxThreshold == 3
\* settings.silence_timeout_sec, in ticks of the clock
MaxTimeout == 1
\* settings.recent_segments_for_context is 0 or MaxRecent
MaxRecent == 1

\* the text of the id-th segment handed to add_segment: id characters
SegmentTextOf(id) == [i \in 1 .. id |-> "a"]

\* what the LLM client can return: an empty or a non-empty response
LlmResponses == {"", "summary"}

\* settings.recent_segments_for_context, which _process_buffer reads: the
\* window of summarized segments kept for the next prompt
RecentSegmentsForContext == {0, MaxRecent}

\* the SummarySettings fields that RealtimeSummarizer reads
SummarySettingsSet ==
    [trigger_threshold : {1, MaxThreshold},
     silence_timeout_sec : {MaxTimeout},
     recent_segments_for_context : RecentSegmentsForContext]

DefaultSummarySettings ==
    [trigger_threshold |-> MaxThreshold, silence_timeout_sec |-> MaxTimeout,
     recent_segments_for_context |-> MaxRecent]

\* RealtimeSummarizer.__init__
RealtimeSummarizerInit ==
    [running |-> TRUE, current_summary |-> "", is_summarizing |-> FALSE,
     summarized_segments |-> <<>>, pending_segments |-> <<>>,
     trigger_event |-> FALSE, last_segment_time |-> None]

\* the summarizer's thread before run() has started its loop; the locals of
\* run, _should_summarize and _process_buffer are reset when they go out of use
SumWorkerInit ==
    [pc |-> "while", char_count |-> 0, new_segments |-> <<>>,
     user_content |-> None, summary |-> None]

\* the thread that hands segments to add_segment
AdderInit == [pc |-> "idle", next_id |-> 1, segment |-> None]

\* the main thread, before RealtimeSummarizer.stop
SumStopperInit == [pc |-> "idle", session |-> None, user_content |-> None]

\* history: the segments appended to pending_segments, the batches taken out
\* of it, and the calls of the LLM client
LlmInit == [arrived |-> <<>>, taken |-> <<>>, calls |-> <<>>, final_calls |-> <<>>]

\* Python's seq[-n:] for n >= 0 -- seq[-0:] is seq[0:], the whole list
LastN(s, n) ==
    IF n = 0 \/ n >= Len(s) THEN s ELSE SubSeq(s, Len(s) - n + 1, Len(s))

\* RealtimeSummarizer.buffer_char_count
BufferCharCount(pending) == Sum([i \in 1 .. Len(pending) |-> Len(pending[i].text)])

\* RealtimeSummarizer._should_summarize, from the char_count it has read
ShouldSummarize(char_count, last_segment_time, settings) ==
    IF char_count >= settings.trigger_threshold THEN TRUE
    ELSE IF last_segment_time # None
            THEN last_segment_time[1] >= settings.silence_timeout_sec
            ELSE FALSE

\* prompts.format_segments: one line per segment, its time and its text
FormatSegments(segments) ==
    [i \in 1 .. Len(segments) |-> <<segments[i].start_time, segments[i].text>>]

\* RealtimePromptStrategy.build_user_prompt: the parts of the prompt
BuildUserPrompt(previous_summary, processed_segments, new_segments) ==
    [summary_text |-> IF previous_summary # None THEN previous_summary[1]
                      ELSE "(no summary yet)",
     processed_text |-> IF processed_segments # None /\ processed_segments[1] # <<>>
                           THEN FormatSegments(processed_segments[1]) ELSE <<>>,
     new_text |-> FormatSegments(new_segments)]

\* FinalSummaryPromptStrategy.build_user_prompt: the full transcript
BuildFinalPrompt(sess) == [full_transcript |-> FormatSegments(sess.segments)]

\* a _process_buffer that copies pending_segments and does not clear it
TakePendingKeepsThem(pending) == [new_segments |-> pending, pending |-> <<>> \o pending]

\* _process_buffer under _segment_lock: new_segments = pending_segments.copy()
\* and pending_segments.clear()
TakePending(pending) == [new_segments |-> pending, pending |-> <<>>]

\* a wait() that has no timeout
EventWaitNoTimeout(flag, timed_out) == flag

\* threading.Event.wait(timeout) returns once the flag is set or the timeout
\* has run out
EventWait(flag, timed_out) == flag \/ timed_out

\* time passes: last_segment_time grows older
Tick ==
    /\ summarizer.last_segment_time # None
    /\ summarizer.last_segment_time[1] < summarySettings.silence_timeout_sec
    /\ summarizer' = [summarizer EXCEPT
                        !.last_segment_time = Some(summarizer.last_segment_time[1] + 1)]
    /\ UNCHANGED <<vadVars, outerVars, asrThreads, session, events,
                   summarySettings, sumWorker, adder, sumStopper, llm>>

\* segment_transcribed.send: the session's handler appends the segment, then
\* add_segment tests "if self.running"
AddSegmentCheck ==
    /\ adder.pc = "idle"
    /\ adder.next_id <= MaxSegments
    /\ LET segment == [text |-> SegmentTextOf(adder.next_id),
                       start_time |-> adder.next_id,
                       audio_duration |-> AudioDurationOf(adder.next_id),
                       avg_logprob |-> None]
       IN /\ session' = OnSegmentTranscribed(session, [segment |-> segment])
          /\ adder' = IF summarizer.running
                         THEN [adder EXCEPT !.pc = "append", !.segment = Some(segment),
                                            !.next_id = adder.next_id + 1]
                         ELSE [adder EXCEPT !.next_id = adder.next_id + 1]
    /\ UNCHANGED <<vadVars, outerVars, asrThreads, events,
                   summarySettings, summarizer, sumWorker, sumStopper, llm>>

\* add_segment under _segment_lock: append and last_segment_time
AddSegmentAppend ==
    /\ adder.pc = "append"
    /\ summarizer' = [summarizer EXCEPT
                        !.pending_segments = Append(summarizer.pending_segments,
                                                    adder.segment[1]),
                        !.last_segment_time = Some(0)]
    /\ llm' = [llm EXCEPT !.arrived = Append(llm.arrived, adder.segment[1])]
    /\ adder' = [adder EXCEPT !.pc = "set"]
    /\ UNCHANGED <<vadVars, outerVars, asrThreads, session, events,
                   summarySettings, sumWorker, sumStopper>>

\* add_segment: _trigger_event.set()
AddSegmentSet ==
    /\ adder.pc = "set"
    /\ summarizer' = [summarizer EXCEPT !.trigger_event = TRUE]
    /\ adder' = [adder EXCEPT !.pc = "idle", !.segment = None]
    /\ UNCHANGED <<vadVars, outerVars, asrThreads, session, events,
                   summarySettings, sumWorker, sumStopper, llm>>

\* run: "while self.running"
SumRunWhile ==
    /\ sumWorker.pc = "while"
    /\ sumWorker' = [sumWorker EXCEPT
                       !.pc = IF summarizer.running THEN "wait" ELSE "exited"]
    /\ UNCHANGED <<vadVars, outerVars, asrThreads, session, events,
                   summarySettings, summarizer, adder, sumStopper, llm>>

\* run: _trigger_event.wait(timeout) returns
SumRunWait ==
    /\ sumWorker.pc = "wait"
    /\ \E timed_out \in BOOLEAN : EventWait(summarizer.trigger_event, timed_out)
    /\ sumWorker' = [sumWorker EXCEPT !.pc = "clear"]
    /\ UNCHANGED <<vadVars, outerVars, asrThreads, session, events,
                   summarySettings, summarizer, adder, sumStopper, llm>>

\* run: _trigger_event.clear()
SumRunClear ==
    /\ sumWorker.pc = "clear"
    /\ summarizer' = [summarizer EXCEPT !.trigger_event = FALSE]
    /\ sumWorker' = [sumWorker EXCEPT !.pc = "count"]
    /\ UNCHANGED <<vadVars, outerVars, asrThreads, session, events,
                   summarySettings, adder, sumStopper, llm>>

\* _should_summarize: char_count = self.buffer_char_count, under the lock
ShouldSummarizeCount ==
    /\ sumWorker.pc = "count"
    /\ sumWorker' = [sumWorker EXCEPT
                       !.pc = "decide",
                       !.char_count = BufferCharCount(summarizer.pending_segments)]
    /\ UNCHANGED <<vadVars, outerVars, asrThreads, session, events,
                   summarySettings, summarizer, adder, sumStopper, llm>>

\* _should_summarize: the two tests, and run's "if self._should_summarize()"
ShouldSummarizeDecide ==
    /\ sumWorker.pc = "decide"
    /\ sumWorker' = [sumWorker EXCEPT
                       !.pc = IF ShouldSummarize(sumWorker.char_count,
                                                 summarizer.last_segment_time,
                                                 summarySettings)
                                 THEN "take" ELSE "while",
                       !.char_count = 0]
    /\ UNCHANGED <<vadVars, outerVars, asrThreads, session, events,
                   summarySettings, summarizer, adder, sumStopper, llm>>

\* a _process_buffer without the "if not self.pending_segments" test: it
\* goes on to the LLM call with nothing new
ProcessBufferEmptyCallsLlm ==
    /\ sumWorker.pc = "take"
    /\ summarizer.pending_segments = <<>>
    /\ summarizer' = [summarizer EXCEPT !.is_summarizing = TRUE]
    /\ sumWorker' = [sumWorker EXCEPT
                       !.pc = "llm", !.new_segments = <<>>,
                       !.user_content = Some(BuildUserPrompt(None, None, <<>>))]
    /\ UNCHANGED <<vadVars, outerVars, asrThreads, session, events,
                   summarySettings, adder, sumStopper, llm>>

\* _process_buffer under _segment_lock, with pending_segments empty: it
\* returns None and run goes round
ProcessBufferEmpty ==
    /\ sumWorker.pc = "take"
    /\ summarizer.pending_segments = <<>>
    /\ sumWorker' = [sumWorker EXCEPT !.pc = "while", !.summary = None]
    /\ UNCHANGED <<vadVars, outerVars, asrThreads, session, events,
                   summarySettings, summarizer, adder, sumStopper, llm>>

\* the prompt _process_buffer builds for new_segments from current_summary
\* and the last recent_segments_for_context summarized segments
RoundPrompt(new_segments) ==
    LET n == summarySettings.recent_segments_for_context
        summarized_recent ==
            IF summarizer.summarized_segments # <<>>
               THEN Some(LastN(summarizer.summarized_segments, n)) ELSE None
        previous_summary ==
            IF summarizer.current_summary # ""
               THEN Some(summarizer.current_summary) ELSE None
    IN BuildUserPrompt(previous_summary, summarized_recent, new_segments)

\* _process_buffer up to the LLM call: under _segment_lock the pending
\* segments are taken, then the prompt is built and is_summarizing is set
\* (summarized_segments, current_summary and is_summarizing are written by
\* this thread only)
ProcessBufferTake ==
    /\ sumWorker.pc = "take"
    /\ summarizer.pending_segments # <<>>
    /\ LET t == TakePending(summarizer.pending_segments)
       IN /\ summarizer' = [summarizer EXCEPT !.pending_segments = t.pending,
                                              !.is_summarizing = TRUE]
          /\ sumWorker' = [sumWorker EXCEPT
                             !.pc = "llm",
                             !.new_segments = t.new_segments,
                             !.user_content = Some(RoundPrompt(t.new_segments))]
          /\ llm' = [llm EXCEPT !.taken = Append(llm.taken,
                                   [by |-> "round", segments |-> t.new_segments])]
    /\ UNCHANGED <<vadVars, outerVars, asrThreads, session, events,
                   summarySettings, adder, sumStopper>>

\* _process_buffer: the LLM client returns; a non-empty response becomes
\* current_summary and the round's segments join summarized_segments
LlmReturns ==
    /\ sumWorker.pc = "llm"
    /\ \E updated_summary \in LlmResponses :
         /\ summarizer' =
               IF updated_summary # ""
                  THEN [summarizer EXCEPT
                          !.current_summary = updated_summary,
                          !.summarized_segments =
                              LastN(summarizer.summarized_segments
                                      \o sumWorker.new_segments,
                                    summarySettings.recent_segments_for_context),
                          !.is_summarizing = FALSE]
                  ELSE [summarizer EXCEPT !.is_summarizing = FALSE]
         /\ sumWorker' = [sumWorker EXCEPT
                            !.pc = IF updated_summary # "" THEN "publish" ELSE "while",
                            !.summary = IF updated_summary # ""
                                           THEN Some(updated_summary) ELSE None,
                            !.new_segments = <<>>,
                            !.user_content = None]
         /\ llm' = [llm EXCEPT !.calls = Append(llm.calls,
                        [user_prompt |-> sumWorker.user_content[1],
                         new_segments |-> sumWorker.new_segments,
                         outcome |-> "returned", response |-> updated_summary])]
    /\ UNCHANGED <<vadVars, outerVars, asrThreads, session, events,
                   summarySettings, adder, sumStopper>>

\* a _process_buffer without the finally clause: is_summarizing stays set
\* when the LLM client raises
LlmRaisesNoFinally ==
    /\ sumWorker.pc = "llm"
    /\ PostMessage("ERROR")
    /\ sumWorker' = [sumWorker EXCEPT !.pc = "while", !.summary = None,
                                      !.new_segments = <<>>, !.user_content = None]
    /\ llm' = [llm EXCEPT !.calls = Append(llm.calls,
                   [user_prompt |-> sumWorker.user_content[1],
                    new_segments |-> sumWorker.new_segments,
                    outcome |-> "raised", response |-> ""])]
    /\ UNCHANGED <<vadVars, outerVars, asrThreads, summarySettings, summarizer,
                   adder, sumStopper>>

\* _process_buffer: the LLM client raises; the except clause posts an ERROR
\* message and returns None, the finally clause resets is_summarizing
LlmRaises ==
    /\ sumWorker.pc = "llm"
    /\ PostMessage("ERROR")
    /\ summarizer' = [summarizer EXCEPT !.is_summarizing = FALSE]
    /\ sumWorker' = [sumWorker EXCEPT !.pc = "while", !.summary = None,
                                      !.new_segments = <<>>, !.user_content = None]
    /\ llm' = [llm EXCEPT !.calls = Append(llm.calls,
                   [user_prompt |-> sumWorker.user_content[1],
                    new_segments |-> sumWorker.new_segments,
                    outcome |-> "raised", response |-> ""])]
    /\ UNCHANGED <<vadVars, outerVars, asrThreads, summarySettings, adder, sumStopper>>

\* summary_generated.send(event): the event is published and the session's
\* handler runs on the publishing thread
SendSummary(event) ==
    /\ events' = [events EXCEPT !.summaries = Append(events.summaries, event)]
    /\ session' = OnSummaryGenerated(session, event)

\* run: "if summary", SummaryGeneratedEvent(summary=summary) and
\* summary_generated.send
SumPublish ==
    /\ sumWorker.pc = "publish"
    /\ SendSummary(SummaryGeneratedEvent(sumWorker.summary[1], FALSE))
    /\ sumWorker' = [sumWorker EXCEPT !.pc = "while", !.summary = None]
    /\ UNCHANGED <<vadVars, outerVars, asrThreads,
                   summarySettings, summarizer, adder, sumStopper, llm>>

\* _process_buffer: the pending segments are taken and build_user_prompt
\* raises, outside the try statement
PromptBuilderRaises ==
    /\ sumWorker.pc = "take"
    /\ summarizer.pending_segments # <<>>
    /\ LET t == TakePending(summarizer.pending_segments)
       IN /\ summarizer' = [summarizer EXCEPT !.pending_segments = t.pending]
          /\ sumWorker' = [sumWorker EXCEPT !.pc = "crashed",
                                            !.new_segments = t.new_segments]
          /\ llm' = [llm EXCEPT !.taken = Append(llm.taken,
                                   [by |-> "round", segments |-> t.new_segments])]
    /\ UNCHANGED <<vadVars, outerVars, asrThreads, session, events,
                   summarySettings, adder, sumStopper>>

\* run: a subscriber of summary_generated raises
SummarySubscriberRaises ==
    /\ sumWorker.pc = "publish"
    /\ sumWorker' = [sumWorker EXCEPT !.pc = "crashed"]
    /\ UNCHANGED <<vadVars, outerVars, asrThreads, session, events,
                   summarySettings, summarizer, adder, sumStopper, llm>>

\* _process_buffer: a subscriber of message_posted raises inside the except
\* clause; the finally clause runs and the exception leaves run
SumMessageSubscriberRaises ==
    /\ sumWorker.pc = "llm"
    /\ summarizer' = [summarizer EXCEPT !.is_summarizing = FALSE]
    /\ sumWorker' = [sumWorker EXCEPT !.pc = "crashed"]
    /\ llm' = [llm EXCEPT !.calls = Append(llm.calls,
                   [user_prompt |-> sumWorker.user_content[1],
                    new_segments |-> sumWorker.new_segments,
                    outcome |-> "raised", response |-> ""])]
    /\ UNCHANGED <<vadVars, outerVars, asrThreads, session, events,
                   summarySettings, adder, sumStopper>>

\* stop: self.running = False; the caller passes a session or None
SumStop ==
    /\ sumStopper.pc = "idle"
    /\ \E with_session \in BOOLEAN :
         sumStopper' = [sumStopper EXCEPT !.pc = "clear",
                                          !.session = IF with_session
                                                         THEN Some("session") ELSE None]
    /\ summarizer' = [summarizer EXCEPT !.running = FALSE]
    /\ UNCHANGED <<vadVars, outerVars, asrThreads, session, events,
                   summarySettings, sumWorker, adder, llm>>

\* stop under _segment_lock: pending_segments.clear()
SumStopClear ==
    /\ sumStopper.pc = "clear"
    /\ summarizer' = [summarizer EXCEPT !.pending_segments = <<>>]
    /\ llm' = [llm EXCEPT !.taken = Append(llm.taken,
                   [by |-> "stop", segments |-> summarizer.pending_segments])]
    /\ sumStopper' = [sumStopper EXCEPT !.pc = "set"]
    /\ UNCHANGED <<vadVars, outerVars, asrThreads, session, events,
                   summarySettings, sumWorker, adder>>

\* stop: _trigger_event.set()
SumStopSet ==
    /\ sumStopper.pc = "set"
    /\ summarizer' = [summarizer EXCEPT !.trigger_event = TRUE]
    /\ sumStopper' = [sumStopper EXCEPT !.pc = "final"]
    /\ UNCHANGED <<vadVars, outerVars, asrThreads, session, events,
                   summarySettings, sumWorker, adder, llm>>

\* stop: "if session is None or not session.segments: return"
SumStopNoFinal ==
    /\ sumStopper.pc = "final"
    /\ sumStopper.session = None \/ session.segments = <<>>
    /\ sumStopper' = [sumStopper EXCEPT !.pc = "returned"]
    /\ UNCHANGED <<vadVars, outerVars, asrThreads, session, events,
                   summarySettings, summarizer, sumWorker, adder, llm>>

\* stop: the final prompt is built from the session
SumStopFinalPrompt ==
    /\ sumStopper.pc = "final"
    /\ sumStopper.session # None /\ session.segments # <<>>
    /\ sumStopper' = [sumStopper EXCEPT
                        !.pc = "final_llm",
                        !.user_content = Some(BuildFinalPrompt(session))]
    /\ UNCHANGED <<vadVars, outerVars, asrThreads, session, events,
                   summarySettings, summarizer, sumWorker, adder, llm>>

\* stop publishing the final summary without the "if final_summary" test
SumStopFinalReturnsPublishesEmpty ==
    /\ sumStopper.pc = "final_llm"
    /\ \E final_summary \in LlmResponses :
         /\ SendSummary(SummaryGeneratedEvent(final_summary, TRUE))
         /\ llm' = [llm EXCEPT !.final_calls = Append(llm.final_calls,
                        [user_prompt |-> sumStopper.user_content[1],
                         outcome |-> "returned", response |-> final_summary])]
    /\ sumStopper' = [sumStopper EXCEPT !.pc = "returned", !.user_content = None]
    /\ UNCHANGED <<vadVars, outerVars, asrThreads, summarySettings, summarizer, sumWorker, adder>>

\* stop: the LLM client returns the final summary; a non-empty one is
\* published with is_final=True
SumStopFinalReturns ==
    /\ sumStopper.pc = "final_llm"
    /\ \E final_summary \in LlmResponses :
         /\ IF final_summary # ""
               THEN SendSummary(SummaryGeneratedEvent(final_summary, TRUE))
               ELSE UNCHANGED <<session, events>>
         /\ llm' = [llm EXCEPT !.final_calls = Append(llm.final_calls,
                        [user_prompt |-> sumStopper.user_content[1],
                         outcome |-> "returned", response |-> final_summary])]
    /\ sumStopper' = [sumStopper EXCEPT !.pc = "returned", !.user_content = None]
    /\ UNCHANGED <<vadVars, outerVars, asrThreads, summarySettings, summarizer, sumWorker, adder>>

\* stop: the LLM client raises; the except clause posts an ERROR message
SumStopFinalRaises ==
    /\ sumStopper.pc = "final_llm"
    /\ PostMessage("ERROR")
    /\ llm' = [llm EXCEPT !.final_calls = Append(llm.final_calls,
                   [user_prompt |-> sumStopper.user_content[1],
                    outcome |-> "raised", response |-> ""])]
    /\ sumStopper' = [sumStopper EXCEPT !.pc = "returned", !.user_content = None]
    /\ UNCHANGED <<vadVars, outerVars, asrThreads, summarySettings, summarizer, sumWorker, adder>>

(***************************************************************************)
(* StreamScribeApp: the end of run() and _shutdown                         *)
(*                                                                         *)
(* The application is the one built with enable_summary = False, so that   *)
(* self.summarizer is None and _stop_workers stops the transcriber alone.  *)
(* app.saved is the number of segments SessionJsonExporter.save_to_file    *)
(* wrote, None while no file has been written.                             *)
(***************************************************************************)
\* the main thread inside run(), waiting for the exit signal
AppInit ==
    [pc |-> "running", graceful |-> TRUE, final_summary |-> None, saved |-> None,
     final_prompt |-> None]

\* run: the file is done or Ctrl-C (graceful) or Ctrl-D (fast): the SUCCESS
\* or WARNING message is posted and _shutdown begins
Shutdown ==
    /\ app.pc = "running"
    /\ \E graceful \in BOOLEAN :
         /\ app' = [app EXCEPT !.pc = "stop_workers", !.graceful = graceful]
         /\ PostMessage(IF graceful THEN "SUCCESS" ELSE "WARNING")
    /\ UNCHANGED <<vadVars, asrThreads, sumVars, streamVars, strategyVars, filterVars>>

\* _stop_workers: graceful polls is_transcribing until it is false, then
\* either path calls transcriber.stop(wait_for_queue=graceful)
StopWorkers ==
    /\ app.pc = "stop_workers"
    /\ app.graceful => ~IsTranscribing
    /\ StopCall(app.graceful)

\* _stop_workers: transcriber.join(timeout=...) returns, the thread over or not
JoinWorkers ==
    /\ app.pc = "stop_workers"
    /\ stopper.pc = "returned"
    /\ app' = [app EXCEPT !.pc = "save_session"]
    /\ UNCHANGED <<vadVars, asrVars, sumVars, filterVars, streamVars, strategyVars>>

\* _stop_workers of an application built with a summarizer: after
\* transcriber.join(timeout=...) has returned, the thread over or not, the
\* graceful path goes on to summarizer.stop(session=self.session); the fast
\* path calls summarizer.stop(session=None), which makes no final summary
JoinWorkersWithSummarizer ==
    /\ app.pc = "stop_workers"
    /\ stopper.pc = "returned"
    /\ app' = [app EXCEPT !.pc = IF app.graceful THEN "final_summary"
                                                 ELSE "save_session"]
    /\ UNCHANGED <<vadVars, asrVars, sumVars, filterVars, streamVars, strategyVars>>

\* _stop_workers: summarizer.stop(session=self.session) on the main thread.
\* With segments in the session the final prompt is built from the session
\* as it is now and the LLM client is called with it; app.final_prompt keeps
\* that prompt
StopSummarizer ==
    /\ app.pc = "final_summary"
    /\ app' = [app EXCEPT !.pc = "save_session",
                          !.final_prompt = IF session.segments # <<>>
                                              THEN Some(BuildFinalPrompt(session))
                                              ELSE None]
    /\ UNCHANGED <<vadVars, asrVars, sumVars, filterVars, streamVars, strategyVars>>

\* _save_session: the file is written when the session holds a segment
SaveSession(graceful, final_summary, sess) ==
    IF Len(sess.segments) > 0 THEN Some(Len(sess.segments)) ELSE None

\* _shutdown: self._save_session(final_summary), the last statement
SaveSessionCall ==
    /\ app.pc = "save_session"
    /\ app' = [app EXCEPT !.pc = "done",
                          !.saved = SaveSession(app.graceful, app.final_summary, session)]
    /\ UNCHANGED <<vadVars, asrVars, sumVars, filterVars, streamVars, strategyVars>>

(***************************************************************************)
(* AudioStream: the pre-roll ring, the recording buffer and the threads    *)
(*                                                                         *)
(* A chunk is its position in the source's stream (1, 2, ...), which also  *)
(* stands for the time it was read.  One iteration of the for loop of      *)
(* _audio_processing_loop (process_chunk included) is one step; the        *)
(* statements of stop_recording are separate steps, because on_exit runs   *)
(* it on the caller's thread while the audio thread runs.  What add_audio  *)
(* does with an utterance is the ASR subsystem (AddAudioCheck); here the   *)
(* call is recorded in trace.handed.                                       *)
(***************************************************************************)
\* CHUNK_SIZE of domain/constants.py: the samples of one chunk
CHUNK_SIZE == 512
\* MIN_SPEECH_CHUNKS of domain/constants.py
MIN_SPEECH_CHUNKS == 3
\* MAX_SILENCE_CHUNKS, scaled (25 in the source)
MAX_SILENCE_CHUNKS == 2
\* VAD_IDLE_RESET_CHUNKS, scaled (1000 in the source)
VAD_IDLE_RESET_CHUNKS == 2
\* PREROLL_CHUNKS, scaled (93 in the source); not below MIN_SPEECH_CHUNKS
PREROLL_CHUNKS == 4
\* the longest stream a source yields
MaxChunks == 6
\* the most threads start() creates
MaxAudioThreads == 2
\* the longest stream of a source when start() is called twice
MaxRestartChunks == 2

\* CHUNK_MS of domain/constants.py: the milliseconds of one chunk
CHUNK_MS == 32
\* PREROLL_SEC of domain/constants.py (3.0): the seconds of pre-roll
PREROLL_SEC == 3

\* int(preroll_sec * 1000 / chunk_ms), as constants.py computes PREROLL_CHUNKS
\* and VADDetectionSettings.preroll_chunks computes it: int() drops the
\* fraction of the quotient
PrerollChunks(preroll_sec, chunk_ms) == (preroll_sec * 1000) \div chunk_ms

\* VAD_START_THRESHOLD and VAD_END_THRESHOLD as probability levels
VAD_START_THRESHOLD == DefaultVadSettings.start_threshold
VAD_END_THRESHOLD == DefaultVadSettings.end_threshold

AudioThreadIds == 1 .. MaxAudioThreads

\* AudioStream.__init__; thread lists every Thread start() has assigned to
\* self._thread, the last one being its value
AudioStreamInit ==
    [preroll_ring_buffer |-> <<>>, recording_buffer |-> <<>>,
     is_recording |-> FALSE, is_transcribing |-> FALSE,
     silence_chunks |-> 0, speech_chunks |-> 0, idle_silence_chunks |-> 0,
     recording_start |-> None, running |-> FALSE, thread |-> None]

\* a thread start() has not created yet
AudioThreadInit == [pc |-> "unborn", next |-> 1, ret |-> "for", eof_recording |-> FALSE]

CallerInit == [pc |-> "init", ret |-> "init"]

\* nothing handed, no recording started, no chunk processed
TraceInit == [handed |-> <<>>, recordings |-> 0, processed |-> [c \in 1 .. MaxChunks |-> 0]]

\* deque(maxlen=PREROLL_CHUNKS).append: the oldest chunk leaves a full ring
RingAppend(ring, chunk) ==
    IF Len(ring) >= PREROLL_CHUNKS THEN Append(Tail(ring), chunk) ELSE Append(ring, chunk)

\* start_recording
StartRecording(s, now) ==
    [s EXCEPT !.is_recording = TRUE,
              !.recording_start = Some(now),
              !.recording_buffer = s.preroll_ring_buffer]

\* a speech branch that leaves idle_silence_chunks as it is
ProcessChunkSpeechKeepsIdle(s, chunk) ==
    LET s1 == [s EXCEPT !.silence_chunks = 0,
                        !.speech_chunks = s.speech_chunks + 1]
        s2 == IF ~s1.is_recording /\ s1.speech_chunks >= MIN_SPEECH_CHUNKS
                 THEN StartRecording(s1, chunk) ELSE s1
    IN [state |-> IF s2.is_recording
                     THEN [s2 EXCEPT !.recording_buffer = Append(s2.recording_buffer, chunk)]
                     ELSE s2,
        stop |-> FALSE,
        start |-> ~s1.is_recording /\ s1.speech_chunks >= MIN_SPEECH_CHUNKS,
        reset |-> FALSE]

\* process_chunk when the chunk is speech: counters, start test, buffer
\* append; start tells that start_recording is called
ProcessChunkSpeech(s, chunk) ==
    LET s1 == [s EXCEPT !.silence_chunks = 0,
                        !.speech_chunks = s.speech_chunks + 1,
                        !.idle_silence_chunks = 0]
        s2 == IF ~s1.is_recording /\ s1.speech_chunks >= MIN_SPEECH_CHUNKS
                 THEN StartRecording(s1, chunk) ELSE s1
    IN [state |-> IF s2.is_recording
                     THEN [s2 EXCEPT !.recording_buffer = Append(s2.recording_buffer, chunk)]
                     ELSE s2,
        stop |-> FALSE,
        start |-> ~s1.is_recording /\ s1.speech_chunks >= MIN_SPEECH_CHUNKS,
        reset |-> FALSE]

\* process_chunk when the chunk is not speech; stop tells that stop_recording
\* is called, reset that the idle vad.reset_states() is
ProcessChunkSilence(s, chunk) ==
    LET s1 == [s EXCEPT !.speech_chunks = 0]
    IN IF s1.is_recording
          THEN [state |-> [s1 EXCEPT !.silence_chunks = s1.silence_chunks + 1,
                                     !.recording_buffer = Append(s1.recording_buffer, chunk)],
                stop |-> s1.silence_chunks + 1 >= MAX_SILENCE_CHUNKS,
                start |-> FALSE, reset |-> FALSE]
          ELSE [state |-> [s1 EXCEPT !.idle_silence_chunks =
                                        IF s1.idle_silence_chunks + 1 >= VAD_IDLE_RESET_CHUNKS
                                           THEN 0 ELSE s1.idle_silence_chunks + 1],
                stop |-> FALSE, start |-> FALSE,
                reset |-> s1.idle_silence_chunks + 1 >= VAD_IDLE_RESET_CHUNKS]

\* process_chunk up to a call of stop_recording
ProcessChunk(s, chunk, probability) ==
    LET s1 == [s EXCEPT !.preroll_ring_buffer = RingAppend(s.preroll_ring_buffer, chunk)]
        is_speech == IF s1.is_recording THEN probability >= VAD_END_THRESHOLD
                                        ELSE probability >= VAD_START_THRESHOLD
    IN IF is_speech THEN ProcessChunkSpeech(s1, chunk) ELSE ProcessChunkSilence(s1, chunk)

\* a test that asks for one chunk more
StopRecordingTestOneMore(s) ==
    Len(s.recording_buffer) > MIN_SPEECH_CHUNKS + 1 /\ s.recording_start # None

\* stop_recording: the test that guards the hand-over
StopRecordingTest(s) ==
    Len(s.recording_buffer) > MIN_SPEECH_CHUNKS /\ s.recording_start # None

\* stop_recording: the reset at its end
StopRecordingReset(s) ==
    [s EXCEPT !.recording_buffer = <<>>, !.silence_chunks = 0, !.recording_start = None]

\* the call transcriber.add_audio(np.concatenate(recording_buffer), ...)
Handed(tr, s, by) ==
    [tr EXCEPT !.handed = Append(tr.handed, [chunks |-> s.recording_buffer,
                                             recording |-> tr.recordings,
                                             by |-> by])]

\* start(): _running = True and a new thread on _audio_processing_loop
StartCall ==
    /\ Len(stream.thread) < MaxAudioThreads
    /\ LET t == Len(stream.thread) + 1
       IN /\ stream' = [stream EXCEPT !.running = TRUE, !.thread = Append(stream.thread, t)]
          /\ audioThreads' = [audioThreads EXCEPT ![t].pc = "for"]
    /\ caller' = [caller EXCEPT !.pc = "started"]
    /\ UNCHANGED <<vadVars, asrVars, sumVars, filterVars, appVars, strategyVars, source, trace>>

\* the first start()
Start == caller.pc = "init" /\ StartCall

\* start() once more while the stream is started
StartAgain == caller.pc = "started" /\ StartCall

\* one iteration of the for loop: the source yields a chunk, _running is
\* tested, process_chunk runs
LoopIteration(t) ==
    /\ audioThreads[t].pc = "for"
    /\ audioThreads[t].next <= source
    /\ stream.running
    /\ \E probability \in Probabilities :
         LET chunk == audioThreads[t].next
             r == ProcessChunk(stream, chunk, probability)
         IN /\ stream' = r.state
            /\ audioThreads' = [audioThreads EXCEPT
                                  ![t].next = chunk + 1,
                                  ![t].pc = IF r.stop THEN "stop_begin" ELSE "for",
                                  ![t].ret = "for"]
            /\ trace' = [trace EXCEPT
                           !.processed = [trace.processed EXCEPT ![chunk] = @ + 1],
                           !.recordings = IF r.state.is_recording /\ ~stream.is_recording
                                             THEN trace.recordings + 1
                                             ELSE trace.recordings]
    /\ UNCHANGED <<vadVars, asrVars, sumVars, filterVars, appVars, strategyVars, caller, source>>

\* the for loop: 'if not self._running: break'
LoopBreak(t) ==
    /\ audioThreads[t].pc = "for"
    /\ audioThreads[t].next <= source
    /\ ~stream.running
    /\ audioThreads' = [audioThreads EXCEPT ![t].pc = "loop_end"]
    /\ UNCHANGED <<vadVars, asrVars, sumVars, filterVars, appVars, strategyVars, stream, caller, source, trace>>

\* the for loop: the source's stream is over
LoopExhausted(t) ==
    /\ audioThreads[t].pc = "for"
    /\ audioThreads[t].next > source
    /\ audioThreads' = [audioThreads EXCEPT ![t].pc = "loop_end"]
    /\ UNCHANGED <<vadVars, asrVars, sumVars, filterVars, appVars, strategyVars, stream, caller, source, trace>>

\* a loop end that does not look at is_recording
LoopEndTestSkipped(s) == FALSE

\* after the loop: 'if self.is_recording'
LoopEndTest(s) == s.is_recording

\* after the loop: the test of is_recording; eof_recording remembers that the
\* stream was over while recording
LoopEnd(t) ==
    /\ audioThreads[t].pc = "loop_end"
    /\ audioThreads' = [audioThreads EXCEPT
                          ![t].pc = IF LoopEndTest(stream) THEN "stop_begin" ELSE "status",
                          ![t].ret = "status",
                          ![t].eof_recording = (stream.is_recording
                                                /\ audioThreads[t].next > source)]
    /\ UNCHANGED <<vadVars, asrVars, sumVars, filterVars, appVars, strategyVars, stream, caller, source, trace>>

\* stop_recording on the audio thread: is_recording = False
StopBegin(t) ==
    /\ audioThreads[t].pc = "stop_begin"
    /\ stream' = [stream EXCEPT !.is_recording = FALSE]
    /\ audioThreads' = [audioThreads EXCEPT ![t].pc = "stop_hand"]
    /\ UNCHANGED <<vadVars, asrVars, sumVars, filterVars, appVars, strategyVars, caller, source, trace>>

\* stop_recording on the audio thread: the test and the hand-over
StopHand(t) ==
    /\ audioThreads[t].pc = "stop_hand"
    /\ IF StopRecordingTest(stream)
          THEN /\ stream' = [stream EXCEPT !.is_transcribing = TRUE]
               /\ trace' = Handed(trace, stream, t)
          ELSE UNCHANGED <<stream, trace>>
    /\ audioThreads' = [audioThreads EXCEPT ![t].pc = "stop_reset"]
    /\ UNCHANGED <<vadVars, asrVars, sumVars, filterVars, appVars, strategyVars, caller, source>>

\* stop_recording on the audio thread: the reset
StopReset(t) ==
    /\ audioThreads[t].pc = "stop_reset"
    /\ stream' = StopRecordingReset(stream)
    /\ audioThreads' = [audioThreads EXCEPT ![t].pc = audioThreads[t].ret]
    /\ UNCHANGED <<vadVars, asrVars, sumVars, filterVars, appVars, strategyVars, caller, source, trace>>

\* the status loop after the input is over ends; the thread is finished
StatusLoopEnds(t) ==
    /\ audioThreads[t].pc = "status"
    /\ ~(stream.running /\ IsTranscribing)
    /\ audioThreads' = [audioThreads EXCEPT ![t].pc = "finished"]
    /\ UNCHANGED <<vadVars, asrVars, sumVars, filterVars, appVars, strategyVars, stream, caller, source, trace>>

\* on_exit: self._running = False
OnExit ==
    /\ caller.pc = "started"
    /\ stream' = [stream EXCEPT !.running = FALSE]
    /\ caller' = [caller EXCEPT !.pc = "on_exit_test"]
    /\ UNCHANGED <<vadVars, asrVars, sumVars, filterVars, appVars, strategyVars, audioThreads, source, trace>>

\* on_exit: 'if self.is_recording'
OnExitTest ==
    /\ caller.pc = "on_exit_test"
    /\ caller' = [caller EXCEPT !.pc = IF stream.is_recording THEN "stop_begin" ELSE "exited",
                                !.ret = "exited"]
    /\ UNCHANGED <<vadVars, asrVars, sumVars, filterVars, appVars, strategyVars, stream, audioThreads, source, trace>>

\* stop_recording on the caller's thread: is_recording = False
OnExitStopBegin ==
    /\ caller.pc = "stop_begin"
    /\ stream' = [stream EXCEPT !.is_recording = FALSE]
    /\ caller' = [caller EXCEPT !.pc = "stop_hand"]
    /\ UNCHANGED <<vadVars, asrVars, sumVars, filterVars, appVars, strategyVars, audioThreads, source, trace>>

\* stop_recording on the caller's thread: the test and the hand-over
OnExitStopHand ==
    /\ caller.pc = "stop_hand"
    /\ IF StopRecordingTest(stream)
          THEN /\ stream' = [stream EXCEPT !.is_transcribing = TRUE]
               /\ trace' = Handed(trace, stream, 0)
          ELSE UNCHANGED <<stream, trace>>
    /\ caller' = [caller EXCEPT !.pc = "stop_reset"]
    /\ UNCHANGED <<vadVars, asrVars, sumVars, filterVars, appVars, strategyVars, audioThreads, source>>

\* stop_recording on the caller's thread: the reset
OnExitStopReset ==
    /\ caller.pc = "stop_reset"
    /\ stream' = StopRecordingReset(stream)
    /\ caller' = [caller EXCEPT !.pc = caller.ret]
    /\ UNCHANGED <<vadVars, asrVars, sumVars, filterVars, appVars, strategyVars, audioThreads, source, trace>>

\* start(): the finally of the context manager, _running = False and the join
StartFinally ==
    /\ caller.pc \in {"started", "exited"}
    /\ stream' = [stream EXCEPT !.running = FALSE]
    /\ caller' = [caller EXCEPT !.pc = "left"]
    /\ UNCHANGED <<vadVars, asrVars, sumVars, filterVars, appVars, strategyVars, audioThreads, source, trace>>

(***************************************************************************)
(* TranscriptionRetryStrategy on its own: evaluate_result as a function of *)
(* its inputs                                                              *)
(*                                                                         *)
(* A filter reason is None or one of the non-empty strings the filter      *)
(* builds, for which 'not filter_reason' is filter_reason = None.          *)
(***************************************************************************)
\* the most evaluate_result calls on one strategy between two reset()
MaxCalls == 6

\* texts handed to evaluate_result: empty, whitespace only, a word
StrategyTexts == {<<>>, <<" ", " ", " ">>, <<"b", "a", "d">>}

\* filter reasons handed to evaluate_result
StrategyReasons == {None, Some("Error"), Some("Final error")}

\* TranscriptionRetryStrategy.__init__
StrategyInit == [current_attempt |-> 0]

\* no call yet on a fresh strategy
LastCallInit ==
    [n |-> 0, all_rejected |-> TRUE, before |-> 0, text |-> <<>>,
     filter_reason |-> None, result |-> None]

\* strategy.evaluate_result(text, filter_reason)
EvaluateResultCall ==
    /\ lastCall.n < MaxCalls
    /\ \E text \in StrategyTexts, filter_reason \in StrategyReasons :
         LET r == EvaluateResult(strategy.current_attempt, text, filter_reason)
         IN /\ strategy' = [strategy EXCEPT !.current_attempt = r.current_attempt]
            /\ lastCall' = [n |-> lastCall.n + 1,
                            all_rejected |-> lastCall.all_rejected /\ filter_reason # None,
                            before |-> strategy.current_attempt,
                            text |-> text,
                            filter_reason |-> filter_reason,
                            result |-> Some([action |-> r.action,
                                             next_params |-> r.next_params,
                                             reason |-> r.reason])]
    /\ UNCHANGED <<vadVars, asrVars, sumVars, filterVars, appVars, streamVars>>

\* strategy.reset(): the strategy is as fresh
StrategyReset ==
    /\ lastCall.n > 0
    /\ strategy' = [strategy EXCEPT !.current_attempt = 0]
    /\ lastCall' = LastCallInit
    /\ UNCHANGED <<vadVars, asrVars, sumVars, filterVars, appVars, streamVars>>

(***************************************************************************)
(* HallucinationFilter on its own: evaluate_transcription is a function of *)
(* its three arguments, called here with texts that make each detector     *)
(* fire alone and several of them fire together.                           *)
(***************************************************************************)
\* texts handed to evaluate_transcription
FilterTexts ==
    { <<>>,
      <<" ", " ">>,
      <<"o", "k">>,
      <<" ", "o", "k", " ">>,
      <<"a", "x", "x">>,
      <<"x", "x", "x", "x", "x", "x", "x", "x", "x", "x">>,
      <<"a", "a", "a", "a", "a", "a", "a", "a", "a", "a">>,
      <<"a", "a", "a", "a", "a", "a", "a", "a", "a", "a", "a", "a",
        "a", "a", "a", "a", "a", "a", "a", "a">>,
      <<"a", "b", "a", "b", "a", "b", "a", "b", "a", "b", "a", "b",
        "a", "b", "a", "b", "a", "b", "a", "b">>,
      <<"a", "b", "a", "b", "a", "b", "a", "b", "a", "b", "a", "b",
        "a", "b", "a", "b", "a", "b", "a", "b", "a", "b", "a", "b",
        "a", "b", "a", "b", "a", "b", "a", "b", "a", "b", "a", "b",
        "a", "b", "a", "b", "a", "b", "a", "b", "a", "b", "a", "b",
        "a", "b", "a", "b", "a", "b", "a", "b", "a", "b", "a", "b">>,
      <<"a", "b", "c", "d", "e", "f", "g", "i", "j", "k", "l", "a",
        "b", "c", "d", "e", "f", "g", "i", "j", "k", "l", "a", "b",
        "c", "d", "e", "f", "g", "i", "j", "k", "l", "m", "n", "o",
        "p", "q", "r", "s", "t", "u", "v", "w", "z", "0", "1", "2",
        "3", "4", "5", "6", "7", "8", "9", "A", "B", "C", "D", "E">>,
      <<"a", " ", "a", " ", "a", " ", "a", " ", "a">>,
      <<"h", "i", " ", "h", "i", " ", "h", "i", " ", "h", "i", " ",
        "h", "i">>,
      <<"h", "i", "!">>,
      <<"a", "a", "a", "a", "a", "a", "a", "a", "a">>,
      <<"b", "a", "a", "a", "a", "a", "a", "a", "a", "a", "a">>,
      <<"a", "a", "a", "a", "a", "a", "a", "a", "a", "b", "a", "a",
        "a", "a", "a", "a", "a", "a", "a">>,
      <<"a", "a", "a", "a", "a", "a", "a", "a", "a", "a", "a">> }

\* avg_logprob handed to evaluate_transcription, in hundredths
FilterLogprobs == {None, Some(-30), Some(-100), Some(-180)}

\* audio_duration handed to evaluate_transcription, in tenths of a second
FilterDurations == {None, Some(20), Some(60)}

\* no call yet
FilterCallInit ==
    [called |-> FALSE, text |-> <<>>, avg_logprob |-> None,
     audio_duration |-> None, result |-> None]

\* filter.evaluate_transcription(text, avg_logprob, audio_duration); the
\* filter keeps no state between calls, so that one call stands for each
EvaluateTranscriptionCall ==
    /\ ~filterCall.called
    /\ \E text \in FilterTexts, avg_logprob \in FilterLogprobs,
          audio_duration \in FilterDurations :
         filterCall' = [called |-> TRUE, text |-> text, avg_logprob |-> avg_logprob,
                        audio_duration |-> audio_duration,
                        result |-> EvaluateTranscription(text, avg_logprob,
                                                         audio_duration)]
    /\ UNCHANGED <<vadVars, asrVars, sumVars, appVars, streamVars, strategyVars>>

(***************************************************************************)
(* AudioStream.process_chunk beside VadStateMachine.process: both are fed  *)
(* the same probabilities, one chunk at a time, on one thread              *)
(***************************************************************************)
\* the VADDetectionSettings that carry the values of the module constants
\* process_chunk reads
ConstantsAsSettings ==
    [start_threshold |-> VAD_START_THRESHOLD, end_threshold |-> VAD_END_THRESHOLD,
     min_speech_chunks |-> MIN_SPEECH_CHUNKS, max_silence_chunks |-> MAX_SILENCE_CHUNKS,
     idle_reset_chunks |-> VAD_IDLE_RESET_CHUNKS]

\* stop_recording as one call
StopRecording(s) ==
    LET s1 == [s EXCEPT !.is_recording = FALSE]
    IN StopRecordingReset(IF StopRecordingTest(s1)
                             THEN [s1 EXCEPT !.is_transcribing = TRUE] ELSE s1)

\* the calls process_chunk makes, named as the actions of VadStateMachine
StreamAction(r) ==
    CASE r.start -> "START_RECORDING"
      [] r.stop  -> "STOP_RECORDING"
      [] r.reset -> "RESET_VAD_MODEL"
      [] OTHER   -> "NONE"

\* the chunk process_chunk is called with next
NextChunk == audioThreads[1].next

\* the chunks fed side by side: enough for a recording to start, stop and
\* start again
MaxRefineChunks == MaxChunks + 2

\* process_chunk(chunk) on the stream and process(probability) on the state
\* machine, for the probability the VAD model gives the chunk
\* (trace.processed counts the iterations of _audio_processing_loop, of which
\* there are none here)
ProcessChunkAndProcess ==
    /\ NextChunk <= MaxRefineChunks
    /\ \E probability \in Probabilities :
         LET chunk == NextChunk
             q == ProcessChunk(stream, chunk, probability)
             r == VadProcess(vsm, vadSettings, probability)
             is_speech == EvaluateThreshold(vsm, vadSettings, probability)
         IN /\ stream' = IF q.stop THEN StopRecording(q.state) ELSE q.state
            /\ trace' = [(IF q.stop /\ StopRecordingTest(q.state)
                             THEN Handed(trace, q.state, 1) ELSE trace) EXCEPT
                           !.recordings = IF q.start THEN trace.recordings + 1
                                                     ELSE trace.recordings]
            /\ audioThreads' = [audioThreads EXCEPT ![1].next = chunk + 1]
            /\ vsm' = r.state
            /\ vadAction' = r.action
            /\ vadOpen' = OpenAfter(vadOpen, r.action)
            /\ vadRun' = RunAfter(vadRun, is_speech, r.state)
            /\ vadFed' = FedAfter(vadFed, vsm, is_speech, probability)
    /\ UNCHANGED <<vadSettings, asrVars, sumVars, filterVars, appVars, strategyVars,
                   caller, source>>

(***************************************************************************)
(* Specifications                                                          *)
(***************************************************************************)
\* the state machine as constructed with the default settings
VadFixedInit ==
    /\ vadSettings = DefaultVadSettings
    /\ vsm = VadStateMachineInit
    /\ vadAction = "NONE"
    /\ vadOpen = 0
    /\ vadRun = VadRunInit
    /\ vadFed = VadFedInit

\* the transcriber, its threads and the session as constructed
AsrFixedInit ==
    /\ transcriber = TranscriberInit
    /\ asr = AsrThreadInit
    /\ producer = ProducerInit
    /\ stopper = StopperInit
    /\ session = SessionInit
    /\ events = EventsInit

\* the summarizer and its threads as constructed
SumFixedInit ==
    /\ summarySettings = DefaultSummarySettings
    /\ summarizer = RealtimeSummarizerInit
    /\ sumWorker = SumWorkerInit
    /\ adder = AdderInit
    /\ sumStopper = SumStopperInit
    /\ llm = LlmInit

\* the application inside run()
AppFixedInit == app = AppInit

\* the audio stream as constructed, before start()
StreamFixedInit ==
    /\ stream = AudioStreamInit
    /\ audioThreads = [t \in AudioThreadIds |-> AudioThreadInit]
    /\ caller = CallerInit
    /\ source = 0
    /\ trace = TraceInit

\* a fresh strategy
StrategyFixedInit ==
    /\ strategy = StrategyInit
    /\ lastCall = LastCallInit

\* a filter nothing has been handed to
FilterFixedInit == filterCall = FilterCallInit

\* a fresh state machine under every threshold configuration
InitVad ==
    /\ vadSettings \in [start_threshold : Thresholds, end_threshold : Thresholds,
                        min_speech_chunks : ChunkSettings,
                        max_silence_chunks : ChunkSettings,
                        idle_reset_chunks : ChunkSettings]
    /\ vsm = VadStateMachineInit
    /\ vadAction = "NONE"
    /\ vadOpen = 0
    /\ vadRun = VadRunInit
    /\ vadFed = VadFedInit
    /\ AsrFixedInit
    /\ SumFixedInit
    /\ AppFixedInit
    /\ StreamFixedInit
    /\ StrategyFixedInit
    /\ FilterFixedInit

NextVad == ProcessSpeech \/ ProcessSilence

SpecVad == InitVad /\ [][NextVad]_vars

\* the ASR subsystem: the audio thread hands utterances to add_audio, the
\* worker runs Transcriber.run, the main thread calls stop once
InitAsr ==
    VadFixedInit /\ AsrFixedInit /\ SumFixedInit /\ AppFixedInit /\ StreamFixedInit
        /\ StrategyFixedInit
        /\ FilterFixedInit

ProducerNext == AddAudioCheck \/ AddAudioPut

StopperNext == Stop \/ StopGetNowait \/ StopQueueEmpty

WorkerNext ==
    \/ RunWhile \/ RunGet \/ RunGetEmpty \/ RunSetProcessing
    \/ Transcribe \/ TranscribeRaises \/ ReportFailure
    \/ PublishSegment \/ PostRetry \/ PostDiscard \/ RunFinally

NextAsr == ProducerNext \/ StopperNext \/ WorkerNext

SpecAsr == InitAsr /\ [][NextAsr]_vars

\* the same with the threads scheduled fairly and every engine call ending
SpecAsrFair == InitAsr /\ [][NextAsr]_vars /\ WF_vars(WorkerNext) /\ WF_vars(StopperNext)

\* the same as SpecAsr, with the filter and the subscribers of the signals
\* free to raise
NextAsrFault ==
    NextAsr \/ FilterRaises \/ SegmentSubscriberRaises \/ MessageSubscriberRaises

SpecAsrFault == InitAsr /\ [][NextAsrFault]_vars

\* the summarizer subsystem under every settings record: one thread hands
\* segments to add_segment, the summarizer thread runs run(), the main thread
\* calls stop once, and time passes
InitSum ==
    /\ VadFixedInit
    /\ AsrFixedInit
    /\ summarySettings \in SummarySettingsSet
    /\ summarizer = RealtimeSummarizerInit
    /\ sumWorker = SumWorkerInit
    /\ adder = AdderInit
    /\ sumStopper = SumStopperInit
    /\ llm = LlmInit
    /\ AppFixedInit
    /\ StreamFixedInit
    /\ StrategyFixedInit
    /\ FilterFixedInit

AdderNext == AddSegmentCheck \/ AddSegmentAppend \/ AddSegmentSet

SumStopperNext ==
    \/ SumStop \/ SumStopClear \/ SumStopSet \/ SumStopNoFinal
    \/ SumStopFinalPrompt \/ SumStopFinalReturns \/ SumStopFinalRaises

SumWorkerNext ==
    \/ SumRunWhile \/ SumRunWait \/ SumRunClear
    \/ ShouldSummarizeCount \/ ShouldSummarizeDecide
    \/ ProcessBufferEmpty \/ ProcessBufferTake
    \/ LlmReturns \/ LlmRaises \/ SumPublish

NextSum == AdderNext \/ SumStopperNext \/ SumWorkerNext \/ Tick

SpecSum == InitSum /\ [][NextSum]_vars

\* the same with the threads scheduled fairly, every LLM call ending and time
\* passing
SpecSumFair ==
    InitSum /\ [][NextSum]_vars
        /\ WF_vars(SumWorkerNext) /\ WF_vars(Tick)

\* the same as SpecSum, with the prompt builder and the subscribers of the
\* signals free to raise
NextSumFault ==
    NextSum \/ PromptBuilderRaises \/ SummarySubscriberRaises
            \/ SumMessageSubscriberRaises

SpecSumFault == InitSum /\ [][NextSumFault]_vars

\* the application over the ASR subsystem: the audio thread hands utterances
\* to add_audio, the worker runs Transcriber.run, the main thread leaves run()
\* through _shutdown
InitApp == InitAsr

AppNext == Shutdown \/ StopWorkers \/ StopGetNowait \/ StopQueueEmpty
              \/ JoinWorkers \/ SaveSessionCall

NextApp == ProducerNext \/ WorkerNext \/ AppNext

SpecApp == InitApp /\ [][NextApp]_vars

\* the same run of an application built with a summarizer
AppSummaryNext == Shutdown \/ StopWorkers \/ StopGetNowait \/ StopQueueEmpty
                     \/ JoinWorkersWithSummarizer \/ StopSummarizer \/ SaveSessionCall

NextAppSummary == ProducerNext \/ WorkerNext \/ AppSummaryNext

SpecAppSummary == InitApp /\ [][NextAppSummary]_vars

\* the audio stream over a source of every length: start() once, the audio
\* thread runs _audio_processing_loop, the caller calls on_exit and leaves
InitStream ==
    /\ VadFixedInit
    /\ AsrFixedInit
    /\ SumFixedInit
    /\ AppFixedInit
    /\ stream = AudioStreamInit
    /\ audioThreads = [t \in AudioThreadIds |-> AudioThreadInit]
    /\ caller = CallerInit
    /\ source \in 0 .. MaxChunks
    /\ trace = TraceInit
    /\ StrategyFixedInit
    /\ FilterFixedInit

AudioThreadNext ==
    \E t \in AudioThreadIds :
        \/ LoopIteration(t) \/ LoopBreak(t) \/ LoopExhausted(t) \/ LoopEnd(t)
        \/ StopBegin(t) \/ StopHand(t) \/ StopReset(t) \/ StatusLoopEnds(t)

CallerNext ==
    \/ Start \/ OnExit \/ OnExitTest
    \/ OnExitStopBegin \/ OnExitStopHand \/ OnExitStopReset \/ StartFinally

NextStream == AudioThreadNext \/ CallerNext

SpecStream == InitStream /\ [][NextStream]_vars

\* the same with the audio thread scheduled fairly
SpecStreamFair == InitStream /\ [][NextStream]_vars /\ WF_vars(AudioThreadNext)

\* the same as SpecStream, with start() called again while started
NextStreamRestart == NextStream \/ StartAgain

InitStreamRestart == InitStream /\ source <= MaxRestartChunks

SpecStreamRestart == InitStreamRestart /\ [][NextStreamRestart]_vars

\* one strategy object under every sequence of evaluate_result calls and
\* resets
InitStrategy == InitAsr

NextStrategy == EvaluateResultCall \/ StrategyReset

SpecStrategy == InitStrategy /\ [][NextStrategy]_vars

\* one filter under every call of evaluate_transcription
InitFilter == InitAsr

NextFilter == EvaluateTranscriptionCall

SpecFilter == InitFilter /\ [][NextFilter]_vars

\* process_chunk and VadStateMachine.process side by side, the state machine
\* constructed with the values of the module constants
InitRefine ==
    /\ vadSettings = ConstantsAsSettings
    /\ vsm = VadStateMachineInit
    /\ vadAction = "NONE"
    /\ vadOpen = 0
    /\ vadRun = VadRunInit
    /\ vadFed = VadFedInit
    /\ AsrFixedInit
    /\ SumFixedInit
    /\ AppFixedInit
    /\ StreamFixedInit
    /\ StrategyFixedInit
    /\ FilterFixedInit

NextRefine == ProcessChunkAndProcess

SpecRefine == InitRefine /\ [][NextRefine]_vars

(***************************************************************************)
(* C1: the START_RECORDING and STOP_RECORDING actions returned by process  *)
(* strictly alternate, beginning with START_RECORDING: at any time the     *)
(* number of STARTs returned exceeds the number of STOPs by 0 or by 1, a   *)
(* START is returned only when they are equal and a STOP only when a START *)
(* is open; the machine is recording exactly while a START is open.        *)
(***************************************************************************)
C1_StartStopAlternate ==
    /\ vadOpen \in {0, 1}
    /\ vadAction = "START_RECORDING" => vadOpen = 1
    /\ vadAction = "STOP_RECORDING" => vadOpen = 0
    /\ vsm.is_recording <=> vadOpen = 1

\* a STOP_RECORDING has just been returned for an utterance that a
\* START_RECORDING opened after several speech chunks
C1_Witness ==
    /\ vadAction = "STOP_RECORDING"
    /\ vadOpen = 0
    /\ vadSettings.min_speech_chunks = 2
    /\ vadSettings.max_silence_chunks = 2

(***************************************************************************)
(* C2: for each utterance the engine is called at most MAX_ATTEMPTS (5)    *)
(* times, the k-th call is made with WHISPER_PARAMS[k-1] (no record is     *)
(* skipped or reused), and when _process_audio has returned the loop has   *)
(* ended with ACCEPT, DISCARD or an exception of the engine.               *)
(***************************************************************************)
C2_ParamsInOrder ==
    /\ Len(asr.calls) <= MAX_TRANSCRIPTION_RETRIES
    /\ \A k \in 1 .. Len(asr.calls) : asr.calls[k] = ParamsAt(k - 1)
    /\ \A k \in 1 .. Len(asr.calls) : asr.calls[k] \in
            {WHISPER_PARAMS[j] : j \in 1 .. Len(WHISPER_PARAMS)}
    /\ asr.pc = "finally" =>
            asr.outcome \in {"ACCEPT", "DISCARD", "ASR_EXCEPTION"}
    /\ asr.pc \in {"accept", "retry", "discard", "except", "finally"} =>
            Len(asr.calls) >= 1

\* an utterance was given up after all five phases had been tried
C2_Witness ==
    /\ asr.pc = "finally"
    /\ asr.outcome = "DISCARD"
    /\ asr.filter_reason # None
    /\ Len(asr.calls) = MAX_TRANSCRIPTION_RETRIES

(***************************************************************************)
(* C3: every segment published in a SegmentTranscribedEvent has a text     *)
(* that is stripped and non-empty, and evaluate_transcription returned     *)
(* None for that text, avg_logprob and audio_duration on the attempt that  *)
(* produced it.                                                            *)
(***************************************************************************)
C3_PublishedSegmentsPassFilter ==
    \A i \in 1 .. Len(events.segments) :
        LET event == events.segments[i]
            segment == event.segment
        IN /\ segment.text # <<>>
           /\ Strip(segment.text) = segment.text
           /\ event.filter_reason = None
           /\ EvaluateTranscription(segment.text, segment.avg_logprob,
                                    Some(segment.audio_duration)) = None

\* a segment was published on a retry, from a raw text with surrounding blanks
C3_Witness ==
    /\ Len(events.segments) >= 1
    /\ asr.pc = "finally"
    /\ asr.outcome = "ACCEPT"
    /\ Len(asr.calls) >= 2
    /\ asr.text = <<"o", "k">>

(***************************************************************************)
(* C4: segments are published, and appended to the session, in the order   *)
(* in which their utterances were handed to add_audio (the utterance       *)
(* numbers, kept as start_time, count the hand-overs), under every         *)
(* interleaving of the audio thread, the worker and stop.                  *)
(***************************************************************************)
C4_SegmentsInEnqueueOrder ==
    /\ \A i, j \in 1 .. Len(events.segments) :
          i < j => events.segments[i].segment.start_time
                     < events.segments[j].segment.start_time
    /\ \A i, j \in 1 .. Len(session.segments) :
          i < j => session.segments[i].start_time < session.segments[j].start_time
    /\ session.segments = [i \in 1 .. Len(events.segments) |-> events.segments[i].segment]

\* two utterances were accepted
C4_Witness ==
    /\ Len(session.segments) >= 2
    /\ Len(events.segments) >= 2

(***************************************************************************)
(* C5: at every instant is_transcribing is true if and only if some        *)
(* utterance enqueued by add_audio has not finished processing: it is in   *)
(* the queue, or run has dequeued it and _process_audio has not returned   *)
(* through the finally clause.                                             *)
(***************************************************************************)
C5_IsTranscribingIffUnfinished ==
    IsTranscribing <=> (transcriber.queue # <<>> \/ asr.data # None)

(***************************************************************************)
(* C6: no exception raised while an utterance is handled (by the engine,   *)
(* the filter, or a subscriber of the signals) escapes Transcriber.run:    *)
(* the worker thread is never ended by one, and an exception of the engine *)
(* has been reported via message_posted when _process_audio returns.       *)
(***************************************************************************)
C6_NoExceptionEscapes ==
    /\ asr.pc # "crashed"
    /\ asr.outcome = "ASR_EXCEPTION" => asr.reported
    /\ sumWorker.pc # "crashed"

\* the start_time of each segment of a list, which numbers the segments
SegmentIds(segments) == {segments[i].start_time : i \in 1 .. Len(segments)}

\* the summarizer thread is between the end of one round and the take of the
\* next
BetweenRounds == sumWorker.pc \in {"while", "wait", "clear", "count", "decide", "take"}

(***************************************************************************)
(* C7: when the LLM call of a realtime round has raised, an ERROR message  *)
(* has been posted and, until the next round takes them (and unless stop   *)
(* has been called), the segments taken for the failed round are in        *)
(* pending_segments.                                                       *)
(***************************************************************************)
C7_FailedRoundKeepsSegments ==
    (/\ llm.calls # <<>>
     /\ llm.calls[Len(llm.calls)].outcome = "raised"
     /\ BetweenRounds
     /\ sumStopper.pc = "idle")
    => /\ \E i \in 1 .. Len(events.messages) : events.messages[i] = "ERROR"
       /\ SegmentIds(llm.calls[Len(llm.calls)].new_segments)
             \subseteq SegmentIds(summarizer.pending_segments)

RECURSIVE Flatten(_)
\* the segments of a list of batches, in order
Flatten(batches) ==
    IF batches = <<>> THEN <<>>
    ELSE Head(batches).segments \o Flatten(Tail(batches))

IsRound(batch) == batch.by = "round"

\* the batches that rounds of _process_buffer took out of pending_segments
RoundBatches == SelectSeq(llm.taken, IsRound)

\* the segments are accounted for, and each LLM call got its round's batch
C8_Accounted ==
    /\ llm.arrived = Flatten(llm.taken) \o summarizer.pending_segments
    /\ Len(llm.calls) <= Len(RoundBatches)
    /\ \A k \in 1 .. Len(llm.calls) :
          /\ llm.calls[k].new_segments = RoundBatches[k].segments
          /\ llm.calls[k].user_prompt.new_text = FormatSegments(RoundBatches[k].segments)
    /\ sumWorker.pc = "llm" =>
          /\ sumWorker.new_segments = RoundBatches[Len(RoundBatches)].segments
          /\ sumWorker.user_content[1].new_text = FormatSegments(sumWorker.new_segments)

(***************************************************************************)
(* C8: the step of a round that takes the segments takes exactly           *)
(* pending_segments as it is at that moment, in order, and leaves it       *)
(* empty; the LLM call of the round is given exactly those segments; and   *)
(* under every interleaving with add_segment the segments that arrived are *)
(* the segments of the batches taken so far followed by pending_segments,  *)
(* so each segment is in one round or pending, never both, never neither.  *)
(***************************************************************************)
C8_RoundTakesExactlyPending ==
    /\ []C8_Accounted
    /\ [][(sumWorker.pc = "take" /\ sumWorker'.pc = "llm") =>
            /\ sumWorker'.new_segments = summarizer.pending_segments
            /\ summarizer'.pending_segments = <<>>]_vars

\* a round is at its LLM call with one segment while a segment that
\* add_segment appended meanwhile waits in pending_segments
C8_Witness ==
    /\ sumWorker.pc = "llm"
    /\ Len(sumWorker.new_segments) = 1
    /\ Len(summarizer.pending_segments) = 1
    /\ summarizer.running

\* _should_summarize would answer True now
TriggerDue ==
    \/ BufferCharCount(summarizer.pending_segments) >= summarySettings.trigger_threshold
    \/ /\ summarizer.pending_segments # <<>>
       /\ summarizer.last_segment_time # None
       /\ summarizer.last_segment_time[1] >= summarySettings.silence_timeout_sec

\* an LLM call of a realtime round is under way or over for segment s
InLlmCall(s) ==
    \/ sumWorker.pc = "llm" /\ s \in SegmentIds(sumWorker.new_segments)
    \/ \E k \in 1 .. Len(llm.calls) : s \in SegmentIds(llm.calls[k].new_segments)

(***************************************************************************)
(* C9: while the summarizer is running, once the text length of            *)
(* pending_segments has reached trigger_threshold, or pending_segments is  *)
(* not empty and silence_timeout_sec has passed since the last             *)
(* add_segment, every pending segment is eventually given to an LLM call   *)
(* (or stop is called first), under every interleaving of add_segment's    *)
(* set() with the worker's wait() and clear().                             *)
(***************************************************************************)
C9_TriggerLeadsToLlmCall ==
    \A s \in 1 .. MaxSegments :
        [] ((/\ summarizer.running
             /\ TriggerDue
             /\ s \in SegmentIds(summarizer.pending_segments))
            => <>(InLlmCall(s) \/ ~summarizer.running))

\* the silence timeout alone has led to an LLM call: one segment shorter than
\* the threshold was summarized while the summarizer is running
C9_Witness ==
    /\ summarizer.running
    /\ summarySettings.trigger_threshold = MaxThreshold
    /\ Len(llm.calls) >= 1
    /\ BufferCharCount(llm.calls[1].new_segments) < summarySettings.trigger_threshold

C11_FastShutdownNeverSaves ==
    (app.pc = "done" /\ ~app.graceful) => app.saved = None

(***************************************************************************)
(* C12: after Transcriber.stop(wait_for_queue=False) has returned, the     *)
(* queue is empty and stays empty, under every interleaving of add_audio,  *)
(* stop and run.                                                           *)
(***************************************************************************)
C12_FastStopLeavesQueueEmpty ==
    (stopper.pc = "returned" /\ ~stopper.wait_for_queue) => transcriber.queue = <<>>

\* the chunks are consecutive chunks of the stream, each once, in stream order
IsContiguousSlice(chunks) ==
    \A k \in 1 .. Len(chunks) - 1 : chunks[k + 1] = chunks[k] + 1

(***************************************************************************)
(* C13: every utterance handed to the transcriber is a contiguous slice of *)
(* the chunk stream (pre-roll, then START chunk through STOP chunk), every *)
(* chunk appearing exactly once and in stream order.                       *)
(***************************************************************************)
C13_UtteranceIsContiguousSlice ==
    \A i \in 1 .. Len(trace.handed) : IsContiguousSlice(trace.handed[i].chunks)

\* some thread executes the test of stop_recording in this step
StopHandStep ==
    \/ caller.pc = "stop_hand" /\ caller'.pc = "stop_reset"
    \/ \E t \in AudioThreadIds :
         audioThreads[t].pc = "stop_hand" /\ audioThreads'[t].pc = "stop_reset"

\* some thread executes the reset of stop_recording in this step
StopResetStep ==
    \/ caller.pc = "stop_reset" /\ caller'.pc # "stop_reset"
    \/ \E t \in AudioThreadIds :
         audioThreads[t].pc = "stop_reset" /\ audioThreads'[t].pc # "stop_reset"

\* every utterance handed over has more than MIN_SPEECH_CHUNKS * 512 samples
C14_Samples ==
    \A i \in 1 .. Len(trace.handed) :
        Len(trace.handed[i].chunks) * CHUNK_SIZE > MIN_SPEECH_CHUNKS * CHUNK_SIZE

TimesHanded(n) ==
    Cardinality({i \in 1 .. Len(trace.handed) : trace.handed[i].recording = n})

\* no thread is inside or before a stop_recording any more
StreamStopped ==
    /\ caller.pc \in {"exited", "left"}
    /\ \A t \in AudioThreadIds : audioThreads[t].pc \in {"unborn", "finished"}

(***************************************************************************)
(* C15: when the stream is stopped while recording, the utterance in       *)
(* progress is handed to the transcriber exactly once, for every           *)
(* interleaving of on_exit() on the caller's thread with the audio         *)
(* thread: never twice, and not zero times once both threads are through.  *)
(***************************************************************************)
C15_StoppedRecordingHandedOnce ==
    \A n \in 1 .. trace.recordings :
        /\ TimesHanded(n) <= 1
        /\ StreamStopped => TimesHanded(n) = 1

\* the audio thread is over, is_recording is false and the utterance of the
\* last recording has been handed over
FinishedAndHanded(t) ==
    /\ audioThreads[t].pc = "finished"
    /\ ~stream.is_recording
    /\ TimesHanded(trace.recordings) >= 1

C17_StartIsIdempotent ==
    /\ Len(stream.thread) <= 1
    /\ \A c \in 1 .. MaxChunks : trace.processed[c] <= 1

(***************************************************************************)
(* C18: from a fresh strategy, the i-th consecutive evaluate_result call   *)
(* with a filter reason (i = 1 .. MAX_TRANSCRIPTION_RETRIES - 1) returns   *)
(* RETRY with next_params = WHISPER_PARAMS[i] (0-based) and that reason;   *)
(* the MAX_TRANSCRIPTION_RETRIES-th returns DISCARD with a reason made of  *)
(* "Max retries reached" and the last filter reason.                       *)
(***************************************************************************)
C18_RetriesThenDiscard ==
    (lastCall.n > 0 /\ lastCall.all_rejected) =>
        LET i == lastCall.n
            r == lastCall.result[1]
        IN /\ i < MAX_TRANSCRIPTION_RETRIES =>
                 /\ r.action = "RETRY"
                 /\ r.next_params = Some(WHISPER_PARAMS[i + 1])
                 /\ r.reason = lastCall.filter_reason
           /\ i = MAX_TRANSCRIPTION_RETRIES =>
                 /\ r.action = "DISCARD"
                 /\ r.next_params = None
                 /\ r.reason = <<"Max retries reached. Last error",
                                 lastCall.filter_reason[1]>>

\* the fifth rejection in a row, with a reason of its own, was discarded
C18_Witness ==
    /\ lastCall.n = MAX_TRANSCRIPTION_RETRIES
    /\ lastCall.all_rejected
    /\ lastCall.filter_reason = Some("Final error")
    /\ lastCall.result[1].action = "DISCARD"
    /\ strategy.current_attempt = MAX_TRANSCRIPTION_RETRIES - 1

C20_StartOnMinSpeechChunk ==
    /\ vadRun.n = 0 => vsm.speech_chunks = 0
    /\ (vadSettings.min_speech_chunks >= 1 /\ vadRun.from_idle /\ vadRun.n >= 1) =>
          /\ vsm.speech_chunks = vadRun.n
          /\ vadRun.n < vadSettings.min_speech_chunks =>
                vadAction = "NONE" /\ ~vsm.is_recording
          /\ vadRun.n = vadSettings.min_speech_chunks =>
                vadAction = "START_RECORDING" /\ vsm.is_recording
          /\ vadRun.n > vadSettings.min_speech_chunks =>
                vadAction = "NONE" /\ vsm.is_recording

\* the second speech chunk in a row started the recording, the first had not
C20_Witness ==
    /\ vadSettings.min_speech_chunks = 2
    /\ vadRun = [n |-> 2, from_idle |-> TRUE]
    /\ vadAction = "START_RECORDING"
    /\ vsm.is_recording
    /\ vsm.speech_chunks = 2

(***************************************************************************)
(* C21: while the machine is recording, process() returns STOP_RECORDING   *)
(* exactly on the MAX_SILENCE_CHUNKS-th silence chunk in a row and NONE on *)
(* the silence chunks before it; a speech chunk sets silence_chunks back   *)
(* to 0; after the STOP_RECORDING is_recording is false and silence_chunks *)
(* and speech_chunks are both 0.  (max_silence_chunks >= 1)                *)
(***************************************************************************)
C21_StopOnMaxSilenceChunk ==
    /\ vadRun.n >= 1 => vsm.silence_chunks = 0
    /\ vadSettings.max_silence_chunks >= 1 =>
          /\ vadAction = "STOP_RECORDING" =>
                vadFed.rec_n = vadSettings.max_silence_chunks
          /\ vadFed.rec_n >= 1 =>
                /\ vadFed.rec_n <= vadSettings.max_silence_chunks
                /\ vadFed.rec_n < vadSettings.max_silence_chunks =>
                      /\ vadAction = "NONE"
                      /\ vsm.is_recording
                      /\ vsm.silence_chunks = vadFed.rec_n
                /\ vadFed.rec_n = vadSettings.max_silence_chunks =>
                      /\ vadAction = "STOP_RECORDING"
                      /\ ~vsm.is_recording
                      /\ vsm.silence_chunks = 0
                      /\ vsm.speech_chunks = 0

\* the second silence chunk in a row ended a recording
C21_Witness ==
    /\ vadSettings.max_silence_chunks = 2
    /\ vadFed.rec_n = 2
    /\ vadAction = "STOP_RECORDING"

(***************************************************************************)
(* C22: while the machine is idle, process() returns RESET_VAD_MODEL       *)
(* exactly on every IDLE_RESET_CHUNKS-th silence chunk in a row and sets   *)
(* the idle counter back to 0 then; a silence chunk never yields           *)
(* START_RECORDING; while the machine is recording the idle counter never  *)
(* grows and RESET_VAD_MODEL is never returned.  (idle_reset_chunks >= 1)  *)
(***************************************************************************)
C22_IdleResetEveryNthSilence ==
    /\ [](/\ (vadFed.calls = 1 /\ vadRun.n = 0) => vadAction # "START_RECORDING"
          /\ vadFed.was_recording => vadAction # "RESET_VAD_MODEL"
          /\ vadSettings.idle_reset_chunks >= 1 =>
                /\ vadAction = "RESET_VAD_MODEL" <=>
                      /\ vadFed.idle_n >= 1
                      /\ vadFed.idle_n % vadSettings.idle_reset_chunks = 0
                /\ vadFed.idle_n >= 1 =>
                      vsm.idle_silence_chunks
                          = vadFed.idle_n % vadSettings.idle_reset_chunks)
    /\ [][vsm.is_recording => vsm'.idle_silence_chunks <= vsm.idle_silence_chunks]_vars

\* the fourth idle silence chunk in a row brought the second reset
C22_Witness ==
    /\ vadSettings.idle_reset_chunks = 2
    /\ vadFed.idle_n = 4
    /\ vadAction = "RESET_VAD_MODEL"
    /\ vsm.idle_silence_chunks = 0

(***************************************************************************)
(* C23: a chunk counts as speech iff its probability is >= START_THRESHOLD *)
(* while the machine is idle, and iff it is >= END_THRESHOLD while the     *)
(* machine is recording; a probability strictly between the two is silence *)
(* for an idle machine and speech for a recording one.                     *)
(***************************************************************************)
C23_InclusiveHysteresis ==
    vadFed.calls = 1 =>
        /\ (vsm.speech_chunks >= 1) <=>
              IF vadFed.was_recording
                  THEN vadFed.probability >= vadSettings.end_threshold
                  ELSE vadFed.probability >= vadSettings.start_threshold
        /\ (/\ vadSettings.end_threshold < vadFed.probability
            /\ vadFed.probability < vadSettings.start_threshold) =>
              IF vadFed.was_recording
                  THEN vsm.speech_chunks >= 1 /\ vsm.silence_chunks = 0
                  ELSE vsm.speech_chunks = 0 /\ vadFed.idle_n >= 1

\* a probability equal to the start threshold was speech for an idle machine,
\* with an end threshold two below it
C23_Witness ==
    /\ vadFed.calls = 1
    /\ ~vadFed.was_recording
    /\ vadSettings.start_threshold = 2
    /\ vadSettings.end_threshold = 0
    /\ vadFed.probability = vadSettings.start_threshold
    /\ vsm.speech_chunks >= 1

\* the last n elements of s, all of s when it has fewer than n
Window(s, n) == SubSeq(s, Len(s) - Min(n, Len(s)) + 1, Len(s))

(***************************************************************************)
(* C24: after every realtime round whose response is non-empty,            *)
(* summarized_segments holds the last N = recent_segments_for_context      *)
(* segments of the previous summarized_segments followed by the round's    *)
(* new segments, in order, so it is never longer than N, for every N >= 0. *)
(***************************************************************************)
C24_SummarizedKeepsLastN ==
    [][(sumWorker.pc = "llm" /\ sumWorker'.pc = "publish") =>
          /\ summarizer'.summarized_segments =
                Window(summarizer.summarized_segments \o sumWorker.new_segments,
                       summarySettings.recent_segments_for_context)
          /\ Len(summarizer'.summarized_segments)
                <= summarySettings.recent_segments_for_context]_vars

\* the published summary events that are final ones
FinalEvents(ev) ==
    Cardinality({i \in DOMAIN ev.summaries : ev.summaries[i].is_final})

\* stop(session) goes on to the final summary iff the session is given and
\* has segments, and otherwise returns with no LLM call and no final event
StopDecidesBySession ==
    (sumStopper.pc = "final" /\ sumStopper'.pc # "final") =>
        /\ (sumStopper'.pc = "final_llm") <=>
              (sumStopper.session # None /\ session.segments # <<>>)
        /\ sumStopper'.pc = "returned" =>
              /\ llm'.final_calls = <<>>
              /\ FinalEvents(events') = 0

ExtendsAtEnd(s, t) == Len(s) >= Len(t) /\ SubSeq(s, 1, Len(t)) = t

(***************************************************************************)
(* C26: the session's segments, errors and summaries lists only grow by    *)
(* appending at the end: no step removes, replaces or reorders an element  *)
(* that is already in one of the three lists.                              *)
(***************************************************************************)
C26_SessionListsAppendOnly ==
    [][/\ ExtendsAtEnd(session'.segments, session.segments)
       /\ ExtendsAtEnd(session'.errors, session.errors)
       /\ ExtendsAtEnd(session'.summaries, session.summaries)]_vars

\* all three lists have grown, the segments to two different elements
C26_Witness ==
    /\ Len(session.segments) = 2
    /\ session.segments[1] # session.segments[2]
    /\ Len(session.errors) >= 1
    /\ Len(session.summaries) >= 1

\* the MessagePosted events of the given level published so far
MessagesOfLevel(ev, level) ==
    Cardinality({i \in DOMAIN ev.messages : ev.messages[i] = level})

C28_EngineFailureReportedOnce ==
    [][(asr.pc = "except" /\ asr'.pc # "except") =>
          /\ MessagesOfLevel(events', "ERROR") = MessagesOfLevel(events, "ERROR") + 1
          /\ events'.segments = events.segments
          /\ asr'.calls = asr.calls
          /\ asr'.pc = "finally"]_vars

\* the least integer that is not below a / b
CeilDiv(a, b) == (a + b - 1) \div b

(***************************************************************************)
(* C29: the capacity of the pre-roll ring is the ceiling of                *)
(* PREROLL_SEC * 1000 / CHUNK_MS, which is 94 chunks for the defaults 3.0  *)
(* and 32, and the ring never holds more chunks than its capacity.         *)
(***************************************************************************)
C29_RingCapacityIsCeiling ==
    /\ CeilDiv(PREROLL_SEC * 1000, CHUNK_MS) = 94
    /\ PrerollChunks(PREROLL_SEC, CHUNK_MS) = CeilDiv(PREROLL_SEC * 1000, CHUNK_MS)
    /\ Len(stream.preroll_ring_buffer) <= PREROLL_CHUNKS

\* the text is empty or made of whitespace only
IsBlank(text) == \A i \in DOMAIN text : text[i] \in Whitespace

(***************************************************************************)
(* C30: evaluate_transcription returns None for an empty or whitespace-    *)
(* only text; otherwise it returns the reason of the first detector that   *)
(* fires in the order banned phrase, character repetition, short-pattern   *)
(* repetition, long-pattern repetition, token repetition at end,           *)
(* contextless greeting, extreme low confidence, and None only if none of  *)
(* them fires.                                                             *)
(***************************************************************************)
C30_FirstDetectorInOrder ==
    filterCall.called =>
        LET text == filterCall.text
            banned == CheckBannedPhrases(text)
            character == CheckCharacterRepetition(text)
            short == CheckShortPatternRepetition(text)
            long == CheckLongPatternRepetition(text)
            token == CheckTokenRepetition(text)
            greeting == CheckContextlessGreeting(text, filterCall.avg_logprob,
                                                 filterCall.audio_duration)
            confidence == CheckExtremeLowConfidence(filterCall.avg_logprob)
        IN filterCall.result =
              IF IsBlank(text) THEN None
              ELSE IF banned # None THEN banned
              ELSE IF character # None THEN character
              ELSE IF short # None THEN short
              ELSE IF long # None THEN long
              ELSE IF token # None THEN token
              ELSE IF greeting # None THEN greeting
              ELSE IF confidence # None THEN confidence
              ELSE None

\* a text in which the banned phrase detector and the character repetition
\* detector both fire got the banned phrase reason
C30_Witness ==
    /\ filterCall.called
    /\ CheckBannedPhrases(filterCall.text) # None
    /\ CheckCharacterRepetition(filterCall.text) # None
    /\ CheckBannedPhrases(filterCall.text) # CheckCharacterRepetition(filterCall.text)
    /\ filterCall.result = CheckBannedPhrases(filterCall.text)

\* the text has n identical characters in a row somewhere
HasRun(text, n) ==
    \E i \in 1 .. (Len(text) - n + 1) : \A j \in i .. (i + n - 1) : text[j] = text[i]

(***************************************************************************)
(* C31: the character-repetition detector rejects a text iff the text has  *)
(* a run of at least MIN_CHAR_REPETITION (10) identical characters in a    *)
(* row: ten identical characters are rejected, nine are accepted.  Where   *)
(* the text is not blank and no banned phrase is in it, that rejection is  *)
(* what evaluate_transcription returns.                                    *)
(***************************************************************************)
C31_RejectsRunsOfTen ==
    filterCall.called =>
        /\ MIN_CHAR_REPETITION = 10
        /\ CheckCharacterRepetition(filterCall.text) # None
              <=> HasRun(filterCall.text, MIN_CHAR_REPETITION)
        /\ (~IsBlank(filterCall.text) /\ CheckBannedPhrases(filterCall.text) = None) =>
              (filterCall.result = Some("Character repetition")
                  <=> HasRun(filterCall.text, MIN_CHAR_REPETITION))

\* a text of exactly ten identical characters was rejected for them
C31_Witness ==
    /\ filterCall.called
    /\ Len(filterCall.text) = 10
    /\ HasRun(filterCall.text, 10)
    /\ filterCall.result = Some("Character repetition")

\* the worker has finished every utterance enqueued: none is queued and none
\* has been taken and is still in the worker's hands
AsrWorkFinished ==
    /\ transcriber.queue = <<>>
    /\ asr.data = None

(***************************************************************************)
(* C32: in a graceful shutdown the final-summary LLM call is made only     *)
(* after the ASR worker has finished every utterance that was enqueued, so *)
(* that the final prompt and the saved session hold every accepted segment.*)
(***************************************************************************)
C32_FinalSummaryAfterAsrDone ==
    /\ [][(app.pc = "final_summary" /\ app'.pc # "final_summary") => AsrWorkFinished]_vars
    /\ []((app.pc = "done" /\ app.graceful /\ session.segments # <<>>) =>
             /\ app.final_prompt = Some(BuildFinalPrompt(session))
             /\ app.saved = Some(Len(session.segments)))


\* C33: a realtime LLM call is never made with an empty list of new
\* segments: the worker is in the call only with segments taken, every
\* recorded call carries some, and a round that finds pending_segments
\* empty -- also one the silence timeout triggers after a completed round --
\* returns to the loop without a call
C33_NoCallWithoutNewSegments ==
    /\ [](sumWorker.pc = "llm" => sumWorker.new_segments # <<>>)
    /\ [](\A i \in 1 .. Len(llm.calls) : llm.calls[i].new_segments # <<>>)
    /\ [][(sumWorker.pc = "take" /\ summarizer.pending_segments = <<>>
             /\ sumWorker' # sumWorker)
            => (sumWorker'.pc = "while" /\ llm'.calls = llm.calls)]_vars

\* a round had its call, and the next wake-up passed the silence-timeout test
\* with nothing pending
C33_Witness ==
    /\ Len(llm.calls) >= 1
    /\ sumWorker.pc = "take"
    /\ summarizer.pending_segments = <<>>
    /\ summarizer.last_segment_time # None
    /\ summarizer.last_segment_time[1] >= summarySettings.silence_timeout_sec
    /\ sumStopper.pc = "idle"

\* the segments published for the utterance the worker holds
SegmentsOfUtterance == Len(events.segments) - asr.base.segments

\* the ERROR messages published for the utterance the worker holds
ErrorsOfUtterance ==
    Cardinality({i \in asr.base.messages + 1 .. Len(events.messages) :
                    events.messages[i] = "ERROR"})

\* the engine calls of the utterance that ended in RETRY
RetriesOfUtterance ==
    IF asr.pc \in {"transcribe", "retry"} THEN Len(asr.calls) ELSE Len(asr.calls) - 1

(***************************************************************************)
(* C34: each utterance the ASR worker dequeues ends in exactly one         *)
(* terminal outcome: one segment on ACCEPT, one "Quality issue filtered"   *)
(* ERROR on a DISCARD with a filter reason, nothing on a DISCARD of an     *)
(* empty text, or an engine failure.  It never gets more than one segment, *)
(* every RETRY before the outcome has published exactly one "Quality issue *)
(* detected" ERROR, and so an utterance gets at most MAX_ATTEMPTS ERROR    *)
(* messages.                                                               *)
(***************************************************************************)
C34_OneTerminalOutcome ==
    asr.data # None /\ asr.pc \in {"transcribe", "retry", "accept", "discard",
                                   "except", "finally"} =>
       /\ SegmentsOfUtterance <= 1
       /\ ErrorsOfUtterance <= MAX_TRANSCRIPTION_RETRIES
       /\ asr.pc = "transcribe" =>
             SegmentsOfUtterance = 0 /\ ErrorsOfUtterance = RetriesOfUtterance
       /\ asr.pc \in {"retry", "accept", "discard", "except"} =>
             SegmentsOfUtterance = 0 /\ ErrorsOfUtterance = Len(asr.calls) - 1
       /\ asr.pc = "finally" =>
             /\ asr.outcome \in {"ACCEPT", "DISCARD", "ASR_EXCEPTION"}
             /\ SegmentsOfUtterance = IF asr.outcome = "ACCEPT" THEN 1 ELSE 0
             /\ asr.outcome = "ACCEPT" => ErrorsOfUtterance = RetriesOfUtterance
             /\ asr.outcome = "DISCARD" =>
                   ErrorsOfUtterance = RetriesOfUtterance
                                         + (IF asr.filter_reason # None THEN 1 ELSE 0)
             /\ asr.outcome = "ASR_EXCEPTION" =>
                   ErrorsOfUtterance = RetriesOfUtterance
                                         + (IF asr.reported THEN 1 ELSE 0)

\* the second utterance was retried to the last attempt and filtered, after
\* the first one had been retried once, found empty and dropped in silence
C34_Witness ==
    /\ asr.pc = "finally"
    /\ asr.base.messages = 1
    /\ asr.base.segments = 0
    /\ asr.outcome = "DISCARD"
    /\ asr.filter_reason # None
    /\ Len(asr.calls) = MAX_TRANSCRIPTION_RETRIES
    /\ ErrorsOfUtterance = MAX_TRANSCRIPTION_RETRIES


\* the realtime round's LLM call ends in this step, raising or returning an
\* empty response
RoundFails ==
    /\ sumWorker.pc = "llm"
    /\ Len(llm'.calls) = Len(llm.calls) + 1
    /\ LET call == llm'.calls[Len(llm'.calls)]
       IN call.outcome = "raised" \/ call.response = ""

\* the realtime summary events published so far
RealtimeEvents == SelectSeq(events.summaries, LAMBDA e : ~e.is_final)

\* the realtime calls that returned a non-empty response
IsSuccessfulCall(call) == call.outcome = "returned" /\ call.response # ""

(***************************************************************************)
(* C35: when the LLM call of a realtime round raises or returns an empty   *)
(* response, current_summary and summarized_segments stay as they were,    *)
(* is_summarizing is false afterwards and no SummaryGeneratedEvent is      *)
(* published for the round: the worker returns to its loop, and there are  *)
(* never more realtime events than calls that returned a summary.          *)
(***************************************************************************)
C35_FailedRoundChangesNothing ==
    /\ [][RoundFails =>
            /\ summarizer'.current_summary = summarizer.current_summary
            /\ summarizer'.summarized_segments = summarizer.summarized_segments
            /\ ~summarizer'.is_summarizing
            /\ events'.summaries = events.summaries
            /\ sumWorker'.pc = "while"
            /\ sumWorker'.summary = None]_vars
    /\ [](Len(RealtimeEvents) <= Len(SelectSeq(llm.calls, IsSuccessfulCall)))

\* a round failed after an earlier one had produced a summary and its event
C35_Witness ==
    /\ Len(llm.calls) = 2
    /\ IsSuccessfulCall(llm.calls[1])
    /\ ~IsSuccessfulCall(llm.calls[2])
    /\ summarizer.current_summary = "summary"
    /\ summarizer.summarized_segments = llm.calls[1].new_segments
    /\ ~summarizer.is_summarizing
    /\ Len(RealtimeEvents) = 1

\* min_speech_chunks, max_silence_chunks and idle_reset_chunks are at least 1
ChunkSettingsPositive ==
    /\ vadSettings.min_speech_chunks >= 1
    /\ vadSettings.max_silence_chunks >= 1
    /\ vadSettings.idle_reset_chunks >= 1

(***************************************************************************)
(* C36: with min_speech_chunks, max_silence_chunks and idle_reset_chunks   *)
(* at least 1, after every process() call the three counters are not       *)
(* negative; while recording idle_silence_chunks is 0 and silence_chunks   *)
(* is below max_silence_chunks; while not recording silence_chunks is 0,   *)
(* speech_chunks is below min_speech_chunks and idle_silence_chunks is     *)
(* below idle_reset_chunks.                                                *)
(***************************************************************************)
C36_CounterInvariants ==
    ChunkSettingsPositive =>
       /\ vsm.speech_chunks >= 0
       /\ vsm.silence_chunks >= 0
       /\ vsm.idle_silence_chunks >= 0
       /\ vsm.is_recording =>
             /\ vsm.idle_silence_chunks = 0
             /\ vsm.silence_chunks < vadSettings.max_silence_chunks
       /\ ~vsm.is_recording =>
             /\ vsm.silence_chunks = 0
             /\ vsm.speech_chunks < vadSettings.min_speech_chunks
             /\ vsm.idle_silence_chunks < vadSettings.idle_reset_chunks

\* a recording has just been stopped by the last of max_silence_chunks = 2
\* silence chunks, with every setting at least 1
C36_Witness ==
    /\ ChunkSettingsPositive
    /\ vadSettings.max_silence_chunks = 2
    /\ vadAction = "STOP_RECORDING"
    /\ ~vsm.is_recording
    /\ vadFed.rec_n = 2

\* the stream and the state machine agree on the recording flag and the
\* three counters
SameVadState ==
    /\ stream.is_recording = vsm.is_recording
    /\ stream.speech_chunks = vsm.speech_chunks
    /\ stream.silence_chunks = vsm.silence_chunks
    /\ stream.idle_silence_chunks = vsm.idle_silence_chunks

(***************************************************************************)
(* C37: fed the same probabilities from their initial states,              *)
(* AudioStream.process_chunk calls start_recording, stop_recording and the *)
(* idle vad.reset_states on exactly the chunks for which                   *)
(* VadStateMachine.process returns START_RECORDING, STOP_RECORDING and     *)
(* RESET_VAD_MODEL, and after every chunk the two agree on is_recording,   *)
(* speech_chunks, silence_chunks and idle_silence_chunks.                  *)
(***************************************************************************)
C37_ProcessChunkRefinesStateMachine ==
    /\ [][NextChunk' = NextChunk + 1 =>
            StreamAction(ProcessChunk(stream, NextChunk, vadFed'.probability))
               = vadAction']_vars
    /\ []SameVadState

\* both have started a recording and stopped it, and an utterance was handed on
C37_Witness ==
    /\ vadAction = "STOP_RECORDING"
    /\ vadOpen = 0
    /\ Len(trace.handed) = 1
    /\ ~stream.is_recording
    /\ SameVadState

C39_NothingPendingAfterStop ==
    /\ [](sumStopper.pc = "returned" => summarizer.pending_segments = <<>>)
    /\ [][(sumStopper.pc = "returned" /\ sumWorker.pc # "llm")
            => sumWorker'.pc # "llm"]_vars

\* some thread is inside stop_recording
InStopRecording ==
    \/ caller.pc \in {"stop_hand", "stop_reset"}
    \/ \E t \in AudioThreadIds : audioThreads[t].pc \in {"stop_hand", "stop_reset"}

(***************************************************************************)
(* C40: with a pre-roll ring of at least MIN_SPEECH_CHUNKS chunks, every   *)
(* stop_recording that follows a start_recording finds more than           *)
(* MIN_SPEECH_CHUNKS chunks in recording_buffer, so that it never takes    *)
(* the branch that drops the recording and every started recording is      *)
(* handed on exactly once; and recording_buffer is empty whenever          *)
(* is_recording is false and no stop_recording is under way.               *)
(***************************************************************************)
C40_EveryRecordingIsEmitted ==
    /\ [][StopHandStep => Len(stream.recording_buffer) > MIN_SPEECH_CHUNKS]_vars
    /\ [](\A n \in 1 .. trace.recordings : TimesHanded(n) <= 1)
    /\ [](StreamStopped => \A n \in 1 .. trace.recordings : TimesHanded(n) = 1)
    /\ []((~stream.is_recording /\ ~InStopRecording) => stream.recording_buffer = <<>>)
====
